---------------------------- MODULE Spec2Model ----------------------------
(***************************************************************************)
(* A model of the Swiss Ephemeris binding generator                        *)
(* (scripts/generate-bindings.ts with its configuration table) and of the  *)
(* wrappers it synthesizes (src/generated/friendly.ts).                    *)
(*                                                                         *)
(* Four state machines share the variables below; each has its own         *)
(* initial predicate and next-state relation:                              *)
(*   SpecWrapper  one invocation of one synthesized wrapper                *)
(*   SpecTopo     topologicalSort / generateConstants on one input         *)
(*   SpecGen      runs of main() against a disk                            *)
(*   SpecCat      categorizeConstant / categorizeFunctions on one name     *)
(* Text is modelled as sequences of one-character strings, so prefix,      *)
(* substring and replace are computed, not assumed.                        *)
(***************************************************************************)
EXTENDS Integers, Sequences, FiniteSets, TLC

VARIABLES
  \* ---- one wrapper invocation (generated code of generateWrapperFunction)
  wfn,        \* the FunctionDecl whose wrapper is being invoked
  pc,         \* position in the wrapper body
  nAlloc,     \* allocation statements executed so far
  allocLog,   \* pointer variables bound by raw.malloc / mem.allocString, in order
  freeLog,    \* pointer variables passed to raw.free, in order
  called,     \* the native routine was entered
  nativeRet,  \* value returned by the native routine
  errBytes,   \* bytes at the error buffer after the native call
  completion, \* pending completion of the try block: "none", "return", "throw"
  outcome,    \* how the invocation ended: "running", "returned", "raised"
  raisedBy,   \* which statement raised: "none", "alloc", "native", "check"
  errMsg,     \* message of the raised Error (text)
  readLog,    \* buffer reads performed (error message and result construction)
  args,       \* the caller's arguments, by public parameter
  nativeArgs, \* the arguments the native routine was called with
  result,     \* the value the wrapper returned
  \* ---- topologicalSort / generateConstants on one list of constants
  tconstants, \* the Constant[] handed to the generator
  tpc,        \* "start", "sorted" (topologicalSort returned), "generated"
  tsorted,    \* the value topologicalSort returned
  document,   \* the lines generateConstants returned
  \* ---- categorizeConstant / categorizeFunctions on one input
  cpc,        \* "constant" or "functions" (the call to make), then "done"
  cname,      \* the constant name to categorize (text)
  cfns,       \* the FunctionDecl[] to categorize
  category,   \* the value categorizeConstant returned
  categories, \* the value categorizeFunctions returned
  \* ---- runs of main() against a disk
  header,     \* the content of swephexp.h
  disk,       \* path -> content of the output files
  parsed,     \* main()'s locals constants and functions
  gpc,        \* the statement of main() to execute next, or how the run ended
  run,        \* number of runs started
  written,    \* paths the current run has written
  firstRun,   \* the first complete run: its number, its header, the disk it left
  \* ---- one call of withErrorBuffer (helpers.ts), SwissEph.calc or
  \* ---- SwissEph.calcKetu (index.ts)
  acall,      \* the call: operation and arguments
  apc,        \* the statement to execute next
  amallocs,   \* the blocks malloc returned, in order: address and size
  afrees,     \* the addresses passed to free, in order
  serr,       \* the bytes found from serrPtr on
  xxMem,      \* the doubles at xxPtr, by byte offset
  acalled,    \* the callback / native routine: "no", "returned", "raised"
  avalue,     \* the value the callback / native routine returned
  acompletion,\* pending completion of the try block: "none", "return", "throw"
  aresult,    \* the value withErrorBuffer / calc returned
  kresult,    \* the value calcKetu returned
  aoutcome,   \* how the call ended: "running", "returned", "raised"
  \* ---- one function of the generator or of the helpers applied to one input
  finput,     \* the argument
  fpc,        \* "start", then "done"
  foutput     \* the value returned

wvars == <<wfn, pc, nAlloc, allocLog, freeLog, called, nativeRet, errBytes,
           completion, outcome, raisedBy, errMsg, readLog, args, nativeArgs,
           result>>

tvars == <<tconstants, tpc, tsorted, document>>

cvars == <<cpc, cname, cfns, category, categories>>

gvars == <<header, disk, parsed, gpc, run, written, firstRun>>

avars == <<acall, apc, amallocs, afrees, serr, xxMem, acalled, avalue, acompletion,
           aresult, kresult, aoutcome>>

fvars == <<finput, fpc, foutput>>

vars == <<wvars, tvars, cvars, gvars, avars, fvars>>

\* JavaScript's undefined, for optional fields that are absent
Null == "undefined"

Range(s) == {s[i] : i \in DOMAIN s}

Min(S) == CHOOSE x \in S : \A y \in S : x <= y

Max(S) == CHOOSE x \in S : \A y \in S : x >= y

\* the multiset of the elements of a sequence
BagOfSeq(s) == [x \in Range(s) |-> Cardinality({i \in DOMAIN s : s[i] = x})]

\* the state of a machine that is not running
TopoIdle == tconstants = <<>> /\ tpc = "idle" /\ tsorted = <<>> /\ document = <<>>

CatIdle ==
  cpc = "idle" /\ cname = <<>> /\ cfns = <<>> /\ category = "" /\ categories = <<>>

GenIdle ==
  /\ header = <<>> /\ disk = <<>> /\ parsed = <<>> /\ gpc = "idle" /\ run = 0
  /\ written = {} /\ firstRun = {}

\* a value not yet produced
Pending == [pending |-> TRUE]

FunIdle == finput = <<>> /\ fpc = "idle" /\ foutput = <<>>

ApiIdle ==
  /\ acall = [op |-> "none"] /\ apc = "idle" /\ amallocs = <<>> /\ afrees = <<>>
  /\ serr = <<>> /\ xxMem = <<>> /\ acalled = "no" /\ avalue = 0
  /\ acompletion = "none" /\ aresult = Pending /\ kresult = Pending
  /\ aoutcome = "running"

(***************************************************************************)
(* The configuration table (function-config.ts).  outputs keeps the        *)
(* insertion order Object.entries iterates in.                             *)
(***************************************************************************)
functionConfig ==
  [ swe_calc |->
      [friendlyName |-> "calcEt", outputs |-> <<[param |-> "xx", type |-> [type |-> "float64[]", count |-> 6, size |-> 0, name |-> Null]], [param |-> "serr", type |-> [type |-> "error", count |-> 0, size |-> 256, name |-> Null]]>>, inputStrings |-> <<>>, returnType |-> "check-negative", resultType |-> "PlanetPosition", skip |-> FALSE],
    swe_calc_ut |->
      [friendlyName |-> "calc", outputs |-> <<[param |-> "xx", type |-> [type |-> "float64[]", count |-> 6, size |-> 0, name |-> Null]], [param |-> "serr", type |-> [type |-> "error", count |-> 0, size |-> 256, name |-> Null]]>>, inputStrings |-> <<>>, returnType |-> "check-negative", resultType |-> "PlanetPosition", skip |-> FALSE],
    swe_calc_pctr |->
      [friendlyName |-> "calcPlanetocentric", outputs |-> <<[param |-> "xxret", type |-> [type |-> "float64[]", count |-> 6, size |-> 0, name |-> Null]], [param |-> "serr", type |-> [type |-> "error", count |-> 0, size |-> 256, name |-> Null]]>>, inputStrings |-> <<>>, returnType |-> "check-negative", resultType |-> "PlanetPosition", skip |-> FALSE],
    swe_solcross |->
      [friendlyName |-> "solarCrossingEt", outputs |-> <<[param |-> "serr", type |-> [type |-> "error", count |-> 0, size |-> 256, name |-> Null]]>>, inputStrings |-> <<>>, returnType |-> "number", resultType |-> Null, skip |-> FALSE],
    swe_solcross_ut |->
      [friendlyName |-> "solarCrossing", outputs |-> <<[param |-> "serr", type |-> [type |-> "error", count |-> 0, size |-> 256, name |-> Null]]>>, inputStrings |-> <<>>, returnType |-> "number", resultType |-> Null, skip |-> FALSE],
    swe_mooncross |->
      [friendlyName |-> "moonCrossingEt", outputs |-> <<[param |-> "serr", type |-> [type |-> "error", count |-> 0, size |-> 256, name |-> Null]]>>, inputStrings |-> <<>>, returnType |-> "number", resultType |-> Null, skip |-> FALSE],
    swe_mooncross_ut |->
      [friendlyName |-> "moonCrossing", outputs |-> <<[param |-> "serr", type |-> [type |-> "error", count |-> 0, size |-> 256, name |-> Null]]>>, inputStrings |-> <<>>, returnType |-> "number", resultType |-> Null, skip |-> FALSE],
    swe_mooncross_node |->
      [friendlyName |-> "moonNodeCrossingEt", outputs |-> <<[param |-> "xlon", type |-> [type |-> "float64", count |-> 0, size |-> 0, name |-> Null]], [param |-> "xlat", type |-> [type |-> "float64", count |-> 0, size |-> 0, name |-> Null]], [param |-> "serr", type |-> [type |-> "error", count |-> 0, size |-> 256, name |-> Null]]>>, inputStrings |-> <<>>, returnType |-> "number", resultType |-> Null, skip |-> FALSE],
    swe_mooncross_node_ut |->
      [friendlyName |-> "moonNodeCrossing", outputs |-> <<[param |-> "xlon", type |-> [type |-> "float64", count |-> 0, size |-> 0, name |-> Null]], [param |-> "xlat", type |-> [type |-> "float64", count |-> 0, size |-> 0, name |-> Null]], [param |-> "serr", type |-> [type |-> "error", count |-> 0, size |-> 256, name |-> Null]]>>, inputStrings |-> <<>>, returnType |-> "number", resultType |-> Null, skip |-> FALSE],
    swe_helio_cross |->
      [friendlyName |-> "helioCrossingEt", outputs |-> <<[param |-> "jd_cross", type |-> [type |-> "float64", count |-> 0, size |-> 0, name |-> Null]], [param |-> "serr", type |-> [type |-> "error", count |-> 0, size |-> 256, name |-> Null]]>>, inputStrings |-> <<>>, returnType |-> "check-negative", resultType |-> Null, skip |-> FALSE],
    swe_helio_cross_ut |->
      [friendlyName |-> "helioCrossing", outputs |-> <<[param |-> "jd_cross", type |-> [type |-> "float64", count |-> 0, size |-> 0, name |-> Null]], [param |-> "serr", type |-> [type |-> "error", count |-> 0, size |-> 256, name |-> Null]]>>, inputStrings |-> <<>>, returnType |-> "check-negative", resultType |-> Null, skip |-> FALSE],
    swe_pheno |->
      [friendlyName |-> "phenomenaEt", outputs |-> <<[param |-> "attr", type |-> [type |-> "float64[]", count |-> 20, size |-> 0, name |-> Null]], [param |-> "serr", type |-> [type |-> "error", count |-> 0, size |-> 256, name |-> Null]]>>, inputStrings |-> <<>>, returnType |-> "check-negative", resultType |-> "PhenomenaResult", skip |-> FALSE],
    swe_pheno_ut |->
      [friendlyName |-> "phenomena", outputs |-> <<[param |-> "attr", type |-> [type |-> "float64[]", count |-> 20, size |-> 0, name |-> Null]], [param |-> "serr", type |-> [type |-> "error", count |-> 0, size |-> 256, name |-> Null]]>>, inputStrings |-> <<>>, returnType |-> "check-negative", resultType |-> "PhenomenaResult", skip |-> FALSE],
    swe_nod_aps |->
      [friendlyName |-> "nodesApsidesEt", outputs |-> <<[param |-> "xnasc", type |-> [type |-> "float64[]", count |-> 6, size |-> 0, name |-> Null]], [param |-> "xndsc", type |-> [type |-> "float64[]", count |-> 6, size |-> 0, name |-> Null]], [param |-> "xperi", type |-> [type |-> "float64[]", count |-> 6, size |-> 0, name |-> Null]], [param |-> "xaphe", type |-> [type |-> "float64[]", count |-> 6, size |-> 0, name |-> Null]], [param |-> "serr", type |-> [type |-> "error", count |-> 0, size |-> 256, name |-> Null]]>>, inputStrings |-> <<>>, returnType |-> "check-negative", resultType |-> "NodesApsidesResult", skip |-> FALSE],
    swe_nod_aps_ut |->
      [friendlyName |-> "nodesApsides", outputs |-> <<[param |-> "xnasc", type |-> [type |-> "float64[]", count |-> 6, size |-> 0, name |-> Null]], [param |-> "xndsc", type |-> [type |-> "float64[]", count |-> 6, size |-> 0, name |-> Null]], [param |-> "xperi", type |-> [type |-> "float64[]", count |-> 6, size |-> 0, name |-> Null]], [param |-> "xaphe", type |-> [type |-> "float64[]", count |-> 6, size |-> 0, name |-> Null]], [param |-> "serr", type |-> [type |-> "error", count |-> 0, size |-> 256, name |-> Null]]>>, inputStrings |-> <<>>, returnType |-> "check-negative", resultType |-> "NodesApsidesResult", skip |-> FALSE],
    swe_get_orbital_elements |->
      [friendlyName |-> "orbitalElements", outputs |-> <<[param |-> "dret", type |-> [type |-> "float64[]", count |-> 50, size |-> 0, name |-> Null]], [param |-> "serr", type |-> [type |-> "error", count |-> 0, size |-> 256, name |-> Null]]>>, inputStrings |-> <<>>, returnType |-> "check-negative", resultType |-> "OrbitalElements", skip |-> FALSE],
    swe_orbit_max_min_true_distance |->
      [friendlyName |-> "orbitDistanceExtremes", outputs |-> <<[param |-> "dmax", type |-> [type |-> "float64", count |-> 0, size |-> 0, name |-> Null]], [param |-> "dmin", type |-> [type |-> "float64", count |-> 0, size |-> 0, name |-> Null]], [param |-> "dtrue", type |-> [type |-> "float64", count |-> 0, size |-> 0, name |-> Null]], [param |-> "serr", type |-> [type |-> "error", count |-> 0, size |-> 256, name |-> Null]]>>, inputStrings |-> <<>>, returnType |-> "check-negative", resultType |-> Null, skip |-> FALSE],
    swe_heliacal_pheno_ut |->
      [friendlyName |-> "heliacalPhenomena", outputs |-> <<[param |-> "darr", type |-> [type |-> "float64[]", count |-> 50, size |-> 0, name |-> Null]], [param |-> "serr", type |-> [type |-> "error", count |-> 0, size |-> 256, name |-> Null]]>>, inputStrings |-> <<"ObjectName">>, returnType |-> "check-negative", resultType |-> Null, skip |-> FALSE],
    swe_fixstar |->
      [friendlyName |-> "fixedStarEt", outputs |-> <<[param |-> "xx", type |-> [type |-> "float64[]", count |-> 6, size |-> 0, name |-> Null]], [param |-> "serr", type |-> [type |-> "error", count |-> 0, size |-> 256, name |-> Null]]>>, inputStrings |-> <<"star">>, returnType |-> "check-negative", resultType |-> "PlanetPosition", skip |-> FALSE],
    swe_fixstar_ut |->
      [friendlyName |-> "fixedStar", outputs |-> <<[param |-> "xx", type |-> [type |-> "float64[]", count |-> 6, size |-> 0, name |-> Null]], [param |-> "serr", type |-> [type |-> "error", count |-> 0, size |-> 256, name |-> Null]]>>, inputStrings |-> <<"star">>, returnType |-> "check-negative", resultType |-> "PlanetPosition", skip |-> FALSE],
    swe_fixstar_mag |->
      [friendlyName |-> "fixedStarMagnitude", outputs |-> <<[param |-> "mag", type |-> [type |-> "float64", count |-> 0, size |-> 0, name |-> Null]], [param |-> "serr", type |-> [type |-> "error", count |-> 0, size |-> 256, name |-> Null]]>>, inputStrings |-> <<"star">>, returnType |-> "check-negative", resultType |-> Null, skip |-> FALSE],
    swe_fixstar2 |->
      [friendlyName |-> "fixedStar2Et", outputs |-> <<[param |-> "xx", type |-> [type |-> "float64[]", count |-> 6, size |-> 0, name |-> Null]], [param |-> "serr", type |-> [type |-> "error", count |-> 0, size |-> 256, name |-> Null]]>>, inputStrings |-> <<"star">>, returnType |-> "check-negative", resultType |-> "PlanetPosition", skip |-> FALSE],
    swe_fixstar2_ut |->
      [friendlyName |-> "fixedStar2", outputs |-> <<[param |-> "xx", type |-> [type |-> "float64[]", count |-> 6, size |-> 0, name |-> Null]], [param |-> "serr", type |-> [type |-> "error", count |-> 0, size |-> 256, name |-> Null]]>>, inputStrings |-> <<"star">>, returnType |-> "check-negative", resultType |-> "PlanetPosition", skip |-> FALSE],
    swe_fixstar2_mag |->
      [friendlyName |-> "fixedStar2Magnitude", outputs |-> <<[param |-> "mag", type |-> [type |-> "float64", count |-> 0, size |-> 0, name |-> Null]], [param |-> "serr", type |-> [type |-> "error", count |-> 0, size |-> 256, name |-> Null]]>>, inputStrings |-> <<"star">>, returnType |-> "check-negative", resultType |-> Null, skip |-> FALSE],
    swe_julday |->
      [friendlyName |-> "julday", outputs |-> <<>>, inputStrings |-> <<>>, returnType |-> "number", resultType |-> Null, skip |-> FALSE],
    swe_revjul |->
      [friendlyName |-> "revjul", outputs |-> <<[param |-> "jyear", type |-> [type |-> "int32", count |-> 0, size |-> 0, name |-> "year"]], [param |-> "jmon", type |-> [type |-> "int32", count |-> 0, size |-> 0, name |-> "month"]], [param |-> "jday", type |-> [type |-> "int32", count |-> 0, size |-> 0, name |-> "day"]], [param |-> "jut", type |-> [type |-> "float64", count |-> 0, size |-> 0, name |-> "hour"]]>>, inputStrings |-> <<>>, returnType |-> "void", resultType |-> "DateComponents", skip |-> FALSE],
    swe_date_conversion |->
      [friendlyName |-> "dateConversion", outputs |-> <<[param |-> "tjd", type |-> [type |-> "float64", count |-> 0, size |-> 0, name |-> Null]]>>, inputStrings |-> <<>>, returnType |-> "check-negative", resultType |-> Null, skip |-> FALSE],
    swe_utc_to_jd |->
      [friendlyName |-> "utcToJd", outputs |-> <<[param |-> "dret", type |-> [type |-> "float64[]", count |-> 2, size |-> 0, name |-> Null]], [param |-> "serr", type |-> [type |-> "error", count |-> 0, size |-> 256, name |-> Null]]>>, inputStrings |-> <<>>, returnType |-> "check-negative", resultType |-> "JulianDayResult", skip |-> FALSE],
    swe_jdet_to_utc |->
      [friendlyName |-> "jdEtToUtc", outputs |-> <<[param |-> "iyear", type |-> [type |-> "int32", count |-> 0, size |-> 0, name |-> "year"]], [param |-> "imonth", type |-> [type |-> "int32", count |-> 0, size |-> 0, name |-> "month"]], [param |-> "iday", type |-> [type |-> "int32", count |-> 0, size |-> 0, name |-> "day"]], [param |-> "ihour", type |-> [type |-> "int32", count |-> 0, size |-> 0, name |-> "hour"]], [param |-> "imin", type |-> [type |-> "int32", count |-> 0, size |-> 0, name |-> "minute"]], [param |-> "dsec", type |-> [type |-> "float64", count |-> 0, size |-> 0, name |-> "second"]]>>, inputStrings |-> <<>>, returnType |-> "void", resultType |-> "UtcComponents", skip |-> FALSE],
    swe_jdut1_to_utc |->
      [friendlyName |-> "jdUt1ToUtc", outputs |-> <<[param |-> "iyear", type |-> [type |-> "int32", count |-> 0, size |-> 0, name |-> "year"]], [param |-> "imonth", type |-> [type |-> "int32", count |-> 0, size |-> 0, name |-> "month"]], [param |-> "iday", type |-> [type |-> "int32", count |-> 0, size |-> 0, name |-> "day"]], [param |-> "ihour", type |-> [type |-> "int32", count |-> 0, size |-> 0, name |-> "hour"]], [param |-> "imin", type |-> [type |-> "int32", count |-> 0, size |-> 0, name |-> "minute"]], [param |-> "dsec", type |-> [type |-> "float64", count |-> 0, size |-> 0, name |-> "second"]]>>, inputStrings |-> <<>>, returnType |-> "void", resultType |-> "UtcComponents", skip |-> FALSE],
    swe_utc_time_zone |->
      [friendlyName |-> "utcTimeZone", outputs |-> <<[param |-> "iyear_out", type |-> [type |-> "int32", count |-> 0, size |-> 0, name |-> "year"]], [param |-> "imonth_out", type |-> [type |-> "int32", count |-> 0, size |-> 0, name |-> "month"]], [param |-> "iday_out", type |-> [type |-> "int32", count |-> 0, size |-> 0, name |-> "day"]], [param |-> "ihour_out", type |-> [type |-> "int32", count |-> 0, size |-> 0, name |-> "hour"]], [param |-> "imin_out", type |-> [type |-> "int32", count |-> 0, size |-> 0, name |-> "minute"]], [param |-> "dsec_out", type |-> [type |-> "float64", count |-> 0, size |-> 0, name |-> "second"]]>>, inputStrings |-> <<>>, returnType |-> "void", resultType |-> "UtcComponents", skip |-> FALSE],
    swe_houses |->
      [friendlyName |-> "housesSimple", outputs |-> <<[param |-> "cusps", type |-> [type |-> "float64[]", count |-> 13, size |-> 0, name |-> Null]], [param |-> "ascmc", type |-> [type |-> "float64[]", count |-> 10, size |-> 0, name |-> Null]]>>, inputStrings |-> <<>>, returnType |-> "number", resultType |-> "HouseResult", skip |-> FALSE],
    swe_houses_ex |->
      [friendlyName |-> "houses", outputs |-> <<[param |-> "cusps", type |-> [type |-> "float64[]", count |-> 13, size |-> 0, name |-> Null]], [param |-> "ascmc", type |-> [type |-> "float64[]", count |-> 10, size |-> 0, name |-> Null]]>>, inputStrings |-> <<>>, returnType |-> "number", resultType |-> "HouseResult", skip |-> FALSE],
    swe_houses_ex2 |->
      [friendlyName |-> "housesWithSpeed", outputs |-> <<[param |-> "cusps", type |-> [type |-> "float64[]", count |-> 13, size |-> 0, name |-> Null]], [param |-> "ascmc", type |-> [type |-> "float64[]", count |-> 10, size |-> 0, name |-> Null]], [param |-> "cusp_speed", type |-> [type |-> "float64[]", count |-> 13, size |-> 0, name |-> Null]], [param |-> "ascmc_speed", type |-> [type |-> "float64[]", count |-> 10, size |-> 0, name |-> Null]], [param |-> "serr", type |-> [type |-> "error", count |-> 0, size |-> 256, name |-> Null]]>>, inputStrings |-> <<>>, returnType |-> "number", resultType |-> "HouseResultWithSpeed", skip |-> FALSE],
    swe_houses_armc |->
      [friendlyName |-> "housesArmc", outputs |-> <<[param |-> "cusps", type |-> [type |-> "float64[]", count |-> 13, size |-> 0, name |-> Null]], [param |-> "ascmc", type |-> [type |-> "float64[]", count |-> 10, size |-> 0, name |-> Null]]>>, inputStrings |-> <<>>, returnType |-> "number", resultType |-> "HouseResult", skip |-> FALSE],
    swe_houses_armc_ex2 |->
      [friendlyName |-> "housesArmcWithSpeed", outputs |-> <<[param |-> "cusps", type |-> [type |-> "float64[]", count |-> 13, size |-> 0, name |-> Null]], [param |-> "ascmc", type |-> [type |-> "float64[]", count |-> 10, size |-> 0, name |-> Null]], [param |-> "cusp_speed", type |-> [type |-> "float64[]", count |-> 13, size |-> 0, name |-> Null]], [param |-> "ascmc_speed", type |-> [type |-> "float64[]", count |-> 10, size |-> 0, name |-> Null]], [param |-> "serr", type |-> [type |-> "error", count |-> 0, size |-> 256, name |-> Null]]>>, inputStrings |-> <<>>, returnType |-> "number", resultType |-> "HouseResultWithSpeed", skip |-> FALSE],
    swe_house_pos |->
      [friendlyName |-> "housePosition", outputs |-> <<[param |-> "serr", type |-> [type |-> "error", count |-> 0, size |-> 256, name |-> Null]]>>, inputStrings |-> <<>>, returnType |-> "number", resultType |-> Null, skip |-> FALSE],
    swe_gauquelin_sector |->
      [friendlyName |-> "gauquelinSector", outputs |-> <<[param |-> "dgsect", type |-> [type |-> "float64", count |-> 0, size |-> 0, name |-> Null]], [param |-> "serr", type |-> [type |-> "error", count |-> 0, size |-> 256, name |-> Null]]>>, inputStrings |-> <<"starname">>, returnType |-> "check-negative", resultType |-> Null, skip |-> FALSE],
    swe_sol_eclipse_where |->
      [friendlyName |-> "solarEclipseWhere", outputs |-> <<[param |-> "geopos", type |-> [type |-> "float64[]", count |-> 10, size |-> 0, name |-> Null]], [param |-> "attr", type |-> [type |-> "float64[]", count |-> 20, size |-> 0, name |-> Null]], [param |-> "serr", type |-> [type |-> "error", count |-> 0, size |-> 256, name |-> Null]]>>, inputStrings |-> <<>>, returnType |-> "check-negative", resultType |-> "EclipseWhereResult", skip |-> FALSE],
    swe_sol_eclipse_how |->
      [friendlyName |-> "solarEclipseHow", outputs |-> <<[param |-> "attr", type |-> [type |-> "float64[]", count |-> 20, size |-> 0, name |-> Null]], [param |-> "serr", type |-> [type |-> "error", count |-> 0, size |-> 256, name |-> Null]]>>, inputStrings |-> <<>>, returnType |-> "check-negative", resultType |-> "EclipseAttributes", skip |-> FALSE],
    swe_sol_eclipse_when_loc |->
      [friendlyName |-> "solarEclipseWhenLocal", outputs |-> <<[param |-> "tret", type |-> [type |-> "float64[]", count |-> 10, size |-> 0, name |-> Null]], [param |-> "attr", type |-> [type |-> "float64[]", count |-> 20, size |-> 0, name |-> Null]], [param |-> "serr", type |-> [type |-> "error", count |-> 0, size |-> 256, name |-> Null]]>>, inputStrings |-> <<>>, returnType |-> "check-negative", resultType |-> "EclipseTimeResult", skip |-> FALSE],
    swe_sol_eclipse_when_glob |->
      [friendlyName |-> "solarEclipseWhenGlobal", outputs |-> <<[param |-> "tret", type |-> [type |-> "float64[]", count |-> 10, size |-> 0, name |-> Null]], [param |-> "serr", type |-> [type |-> "error", count |-> 0, size |-> 256, name |-> Null]]>>, inputStrings |-> <<>>, returnType |-> "check-negative", resultType |-> "EclipseTimeResult", skip |-> FALSE],
    swe_lun_occult_where |->
      [friendlyName |-> "lunarOccultationWhere", outputs |-> <<[param |-> "geopos", type |-> [type |-> "float64[]", count |-> 10, size |-> 0, name |-> Null]], [param |-> "attr", type |-> [type |-> "float64[]", count |-> 20, size |-> 0, name |-> Null]], [param |-> "serr", type |-> [type |-> "error", count |-> 0, size |-> 256, name |-> Null]]>>, inputStrings |-> <<"starname">>, returnType |-> "check-negative", resultType |-> "EclipseWhereResult", skip |-> FALSE],
    swe_lun_occult_when_loc |->
      [friendlyName |-> "lunarOccultationWhenLocal", outputs |-> <<[param |-> "tret", type |-> [type |-> "float64[]", count |-> 10, size |-> 0, name |-> Null]], [param |-> "attr", type |-> [type |-> "float64[]", count |-> 20, size |-> 0, name |-> Null]], [param |-> "serr", type |-> [type |-> "error", count |-> 0, size |-> 256, name |-> Null]]>>, inputStrings |-> <<"starname">>, returnType |-> "check-negative", resultType |-> "EclipseTimeResult", skip |-> FALSE],
    swe_lun_occult_when_glob |->
      [friendlyName |-> "lunarOccultationWhenGlobal", outputs |-> <<[param |-> "tret", type |-> [type |-> "float64[]", count |-> 10, size |-> 0, name |-> Null]], [param |-> "serr", type |-> [type |-> "error", count |-> 0, size |-> 256, name |-> Null]]>>, inputStrings |-> <<"starname">>, returnType |-> "check-negative", resultType |-> "EclipseTimeResult", skip |-> FALSE],
    swe_lun_eclipse_how |->
      [friendlyName |-> "lunarEclipseHow", outputs |-> <<[param |-> "attr", type |-> [type |-> "float64[]", count |-> 20, size |-> 0, name |-> Null]], [param |-> "serr", type |-> [type |-> "error", count |-> 0, size |-> 256, name |-> Null]]>>, inputStrings |-> <<>>, returnType |-> "check-negative", resultType |-> "EclipseAttributes", skip |-> FALSE],
    swe_lun_eclipse_when |->
      [friendlyName |-> "lunarEclipseWhen", outputs |-> <<[param |-> "tret", type |-> [type |-> "float64[]", count |-> 10, size |-> 0, name |-> Null]], [param |-> "serr", type |-> [type |-> "error", count |-> 0, size |-> 256, name |-> Null]]>>, inputStrings |-> <<>>, returnType |-> "check-negative", resultType |-> "EclipseTimeResult", skip |-> FALSE],
    swe_lun_eclipse_when_loc |->
      [friendlyName |-> "lunarEclipseWhenLocal", outputs |-> <<[param |-> "tret", type |-> [type |-> "float64[]", count |-> 10, size |-> 0, name |-> Null]], [param |-> "attr", type |-> [type |-> "float64[]", count |-> 20, size |-> 0, name |-> Null]], [param |-> "serr", type |-> [type |-> "error", count |-> 0, size |-> 256, name |-> Null]]>>, inputStrings |-> <<>>, returnType |-> "check-negative", resultType |-> "EclipseTimeResult", skip |-> FALSE],
    swe_rise_trans |->
      [friendlyName |-> "riseTransit", outputs |-> <<[param |-> "tret", type |-> [type |-> "float64", count |-> 0, size |-> 0, name |-> Null]], [param |-> "serr", type |-> [type |-> "error", count |-> 0, size |-> 256, name |-> Null]]>>, inputStrings |-> <<"starname">>, returnType |-> "check-negative", resultType |-> Null, skip |-> FALSE],
    swe_rise_trans_true_hor |->
      [friendlyName |-> "riseTransitTrueHorizon", outputs |-> <<[param |-> "tret", type |-> [type |-> "float64", count |-> 0, size |-> 0, name |-> Null]], [param |-> "serr", type |-> [type |-> "error", count |-> 0, size |-> 256, name |-> Null]]>>, inputStrings |-> <<"starname">>, returnType |-> "check-negative", resultType |-> Null, skip |-> FALSE],
    swe_azalt |->
      [friendlyName |-> "azimuthAltitude", outputs |-> <<[param |-> "xaz", type |-> [type |-> "float64[]", count |-> 3, size |-> 0, name |-> Null]]>>, inputStrings |-> <<>>, returnType |-> "void", resultType |-> "AzimuthAltitude", skip |-> FALSE],
    swe_azalt_rev |->
      [friendlyName |-> "azimuthAltitudeReverse", outputs |-> <<[param |-> "xout", type |-> [type |-> "float64[]", count |-> 3, size |-> 0, name |-> Null]]>>, inputStrings |-> <<>>, returnType |-> "void", resultType |-> Null, skip |-> FALSE],
    swe_heliacal_ut |->
      [friendlyName |-> "heliacalRising", outputs |-> <<[param |-> "dret", type |-> [type |-> "float64[]", count |-> 50, size |-> 0, name |-> Null]], [param |-> "serr", type |-> [type |-> "error", count |-> 0, size |-> 256, name |-> Null]]>>, inputStrings |-> <<"ObjectName">>, returnType |-> "check-negative", resultType |-> Null, skip |-> FALSE],
    swe_vis_limit_mag |->
      [friendlyName |-> "visibilityLimitMagnitude", outputs |-> <<[param |-> "dret", type |-> [type |-> "float64[]", count |-> 8, size |-> 0, name |-> Null]], [param |-> "serr", type |-> [type |-> "error", count |-> 0, size |-> 256, name |-> Null]]>>, inputStrings |-> <<"ObjectName">>, returnType |-> "check-negative", resultType |-> Null, skip |-> FALSE],
    swe_heliacal_angle |->
      [friendlyName |-> "heliacalAngle", outputs |-> <<[param |-> "dret", type |-> [type |-> "float64[]", count |-> 3, size |-> 0, name |-> Null]], [param |-> "serr", type |-> [type |-> "error", count |-> 0, size |-> 256, name |-> Null]]>>, inputStrings |-> <<>>, returnType |-> "check-negative", resultType |-> Null, skip |-> FALSE],
    swe_topo_arcus_visionis |->
      [friendlyName |-> "topoArcusVisionis", outputs |-> <<[param |-> "dret", type |-> [type |-> "float64[]", count |-> 3, size |-> 0, name |-> Null]], [param |-> "serr", type |-> [type |-> "error", count |-> 0, size |-> 256, name |-> Null]]>>, inputStrings |-> <<>>, returnType |-> "check-negative", resultType |-> Null, skip |-> FALSE],
    swe_refrac |->
      [friendlyName |-> "refraction", outputs |-> <<>>, inputStrings |-> <<>>, returnType |-> "number", resultType |-> Null, skip |-> FALSE],
    swe_refrac_extended |->
      [friendlyName |-> "refractionExtended", outputs |-> <<[param |-> "dret", type |-> [type |-> "float64[]", count |-> 4, size |-> 0, name |-> Null]]>>, inputStrings |-> <<>>, returnType |-> "number", resultType |-> Null, skip |-> FALSE],
    swe_cotrans |->
      [friendlyName |-> "coordinateTransform", outputs |-> <<[param |-> "xpn", type |-> [type |-> "float64[]", count |-> 3, size |-> 0, name |-> Null]]>>, inputStrings |-> <<>>, returnType |-> "void", resultType |-> Null, skip |-> FALSE],
    swe_cotrans_sp |->
      [friendlyName |-> "coordinateTransformWithSpeed", outputs |-> <<[param |-> "xpn", type |-> [type |-> "float64[]", count |-> 6, size |-> 0, name |-> Null]]>>, inputStrings |-> <<>>, returnType |-> "void", resultType |-> Null, skip |-> FALSE],
    swe_deltat |->
      [friendlyName |-> "deltaT", outputs |-> <<>>, inputStrings |-> <<>>, returnType |-> "number", resultType |-> Null, skip |-> FALSE],
    swe_deltat_ex |->
      [friendlyName |-> "deltaTExtended", outputs |-> <<[param |-> "serr", type |-> [type |-> "error", count |-> 0, size |-> 256, name |-> Null]]>>, inputStrings |-> <<>>, returnType |-> "number", resultType |-> Null, skip |-> FALSE],
    swe_time_equ |->
      [friendlyName |-> "equationOfTime", outputs |-> <<[param |-> "te", type |-> [type |-> "float64", count |-> 0, size |-> 0, name |-> Null]], [param |-> "serr", type |-> [type |-> "error", count |-> 0, size |-> 256, name |-> Null]]>>, inputStrings |-> <<>>, returnType |-> "check-negative", resultType |-> Null, skip |-> FALSE],
    swe_lmt_to_lat |->
      [friendlyName |-> "localMeanTimeToApparent", outputs |-> <<[param |-> "tjd_lat", type |-> [type |-> "float64", count |-> 0, size |-> 0, name |-> Null]], [param |-> "serr", type |-> [type |-> "error", count |-> 0, size |-> 256, name |-> Null]]>>, inputStrings |-> <<>>, returnType |-> "check-negative", resultType |-> Null, skip |-> FALSE],
    swe_lat_to_lmt |->
      [friendlyName |-> "apparentToLocalMeanTime", outputs |-> <<[param |-> "tjd_lmt", type |-> [type |-> "float64", count |-> 0, size |-> 0, name |-> Null]], [param |-> "serr", type |-> [type |-> "error", count |-> 0, size |-> 256, name |-> Null]]>>, inputStrings |-> <<>>, returnType |-> "check-negative", resultType |-> Null, skip |-> FALSE],
    swe_set_sid_mode |->
      [friendlyName |-> "setSiderealMode", outputs |-> <<>>, inputStrings |-> <<>>, returnType |-> "void", resultType |-> Null, skip |-> FALSE],
    swe_get_ayanamsa |->
      [friendlyName |-> "getAyanamsaEt", outputs |-> <<>>, inputStrings |-> <<>>, returnType |-> "number", resultType |-> Null, skip |-> FALSE],
    swe_get_ayanamsa_ut |->
      [friendlyName |-> "getAyanamsa", outputs |-> <<>>, inputStrings |-> <<>>, returnType |-> "number", resultType |-> Null, skip |-> FALSE],
    swe_get_ayanamsa_ex |->
      [friendlyName |-> "getAyanamsaExEt", outputs |-> <<[param |-> "daya", type |-> [type |-> "float64", count |-> 0, size |-> 0, name |-> Null]], [param |-> "serr", type |-> [type |-> "error", count |-> 0, size |-> 256, name |-> Null]]>>, inputStrings |-> <<>>, returnType |-> "check-negative", resultType |-> Null, skip |-> FALSE],
    swe_get_ayanamsa_ex_ut |->
      [friendlyName |-> "getAyanamsaEx", outputs |-> <<[param |-> "daya", type |-> [type |-> "float64", count |-> 0, size |-> 0, name |-> Null]], [param |-> "serr", type |-> [type |-> "error", count |-> 0, size |-> 256, name |-> Null]]>>, inputStrings |-> <<>>, returnType |-> "check-negative", resultType |-> Null, skip |-> FALSE],
    swe_sidtime |->
      [friendlyName |-> "siderealTime", outputs |-> <<>>, inputStrings |-> <<>>, returnType |-> "number", resultType |-> Null, skip |-> FALSE],
    swe_sidtime0 |->
      [friendlyName |-> "siderealTime0", outputs |-> <<>>, inputStrings |-> <<>>, returnType |-> "number", resultType |-> Null, skip |-> FALSE],
    swe_degnorm |->
      [friendlyName |-> "normalizeDegrees", outputs |-> <<>>, inputStrings |-> <<>>, returnType |-> "number", resultType |-> Null, skip |-> FALSE],
    swe_radnorm |->
      [friendlyName |-> "normalizeRadians", outputs |-> <<>>, inputStrings |-> <<>>, returnType |-> "number", resultType |-> Null, skip |-> FALSE],
    swe_rad_midp |->
      [friendlyName |-> "radianMidpoint", outputs |-> <<>>, inputStrings |-> <<>>, returnType |-> "number", resultType |-> Null, skip |-> FALSE],
    swe_deg_midp |->
      [friendlyName |-> "degreeMidpoint", outputs |-> <<>>, inputStrings |-> <<>>, returnType |-> "number", resultType |-> Null, skip |-> FALSE],
    swe_split_deg |->
      [friendlyName |-> "splitDegrees", outputs |-> <<[param |-> "ideg", type |-> [type |-> "int32", count |-> 0, size |-> 0, name |-> "degrees"]], [param |-> "imin", type |-> [type |-> "int32", count |-> 0, size |-> 0, name |-> "minutes"]], [param |-> "isec", type |-> [type |-> "int32", count |-> 0, size |-> 0, name |-> "seconds"]], [param |-> "dsecfr", type |-> [type |-> "float64", count |-> 0, size |-> 0, name |-> "secondFraction"]], [param |-> "isgn", type |-> [type |-> "int32", count |-> 0, size |-> 0, name |-> "sign"]]>>, inputStrings |-> <<>>, returnType |-> "void", resultType |-> "SplitDegrees", skip |-> FALSE],
    swe_csnorm |->
      [friendlyName |-> "normalizeCentiseconds", outputs |-> <<>>, inputStrings |-> <<>>, returnType |-> "number", resultType |-> Null, skip |-> FALSE],
    swe_difcsn |->
      [friendlyName |-> "differenceCentiseconds", outputs |-> <<>>, inputStrings |-> <<>>, returnType |-> "number", resultType |-> Null, skip |-> FALSE],
    swe_difdegn |->
      [friendlyName |-> "differenceDegrees", outputs |-> <<>>, inputStrings |-> <<>>, returnType |-> "number", resultType |-> Null, skip |-> FALSE],
    swe_difcs2n |->
      [friendlyName |-> "differenceCentiseconds2", outputs |-> <<>>, inputStrings |-> <<>>, returnType |-> "number", resultType |-> Null, skip |-> FALSE],
    swe_difdeg2n |->
      [friendlyName |-> "differenceDegrees2", outputs |-> <<>>, inputStrings |-> <<>>, returnType |-> "number", resultType |-> Null, skip |-> FALSE],
    swe_difrad2n |->
      [friendlyName |-> "differenceRadians2", outputs |-> <<>>, inputStrings |-> <<>>, returnType |-> "number", resultType |-> Null, skip |-> FALSE],
    swe_csroundsec |->
      [friendlyName |-> "roundCentiseconds", outputs |-> <<>>, inputStrings |-> <<>>, returnType |-> "number", resultType |-> Null, skip |-> FALSE],
    swe_d2l |->
      [friendlyName |-> "doubleToLong", outputs |-> <<>>, inputStrings |-> <<>>, returnType |-> "number", resultType |-> Null, skip |-> FALSE],
    swe_day_of_week |->
      [friendlyName |-> "dayOfWeek", outputs |-> <<>>, inputStrings |-> <<>>, returnType |-> "number", resultType |-> Null, skip |-> FALSE],
    swe_close |->
      [friendlyName |-> "close", outputs |-> <<>>, inputStrings |-> <<>>, returnType |-> "void", resultType |-> Null, skip |-> FALSE],
    swe_set_ephe_path |->
      [friendlyName |-> "setEphemerisPath", outputs |-> <<>>, inputStrings |-> <<"path">>, returnType |-> "void", resultType |-> Null, skip |-> FALSE],
    swe_set_jpl_file |->
      [friendlyName |-> "setJplFile", outputs |-> <<>>, inputStrings |-> <<"fname">>, returnType |-> "void", resultType |-> Null, skip |-> FALSE],
    swe_get_planet_name |->
      [friendlyName |-> "getPlanetName", outputs |-> <<[param |-> "spname", type |-> [type |-> "string", count |-> 0, size |-> 64, name |-> Null]]>>, inputStrings |-> <<>>, returnType |-> "number", resultType |-> Null, skip |-> FALSE],
    swe_set_topo |->
      [friendlyName |-> "setTopocentric", outputs |-> <<>>, inputStrings |-> <<>>, returnType |-> "void", resultType |-> Null, skip |-> FALSE],
    swe_set_lapse_rate |->
      [friendlyName |-> "setLapseRate", outputs |-> <<>>, inputStrings |-> <<>>, returnType |-> "void", resultType |-> Null, skip |-> FALSE],
    swe_set_interpolate_nut |->
      [friendlyName |-> "setInterpolateNutation", outputs |-> <<>>, inputStrings |-> <<>>, returnType |-> "void", resultType |-> Null, skip |-> FALSE],
    swe_get_tid_acc |->
      [friendlyName |-> "getTidalAcceleration", outputs |-> <<>>, inputStrings |-> <<>>, returnType |-> "number", resultType |-> Null, skip |-> FALSE],
    swe_set_tid_acc |->
      [friendlyName |-> "setTidalAcceleration", outputs |-> <<>>, inputStrings |-> <<>>, returnType |-> "void", resultType |-> Null, skip |-> FALSE],
    swe_set_delta_t_userdef |->
      [friendlyName |-> "setDeltaTUserDefined", outputs |-> <<>>, inputStrings |-> <<>>, returnType |-> "void", resultType |-> Null, skip |-> FALSE],
    swe_set_astro_models |->
      [friendlyName |-> "setAstroModels", outputs |-> <<>>, inputStrings |-> <<>>, returnType |-> Null, resultType |-> Null, skip |-> TRUE],
    swe_get_astro_models |->
      [friendlyName |-> "getAstroModels", outputs |-> <<>>, inputStrings |-> <<>>, returnType |-> Null, resultType |-> Null, skip |-> TRUE] ]

(***************************************************************************)
(* The routine declarations parseFunctions extracted from the header, as   *)
(* the generated raw interface lists them, and one routine the             *)
(* configuration table does not know.                                      *)
(***************************************************************************)
headerFunctions ==
  <<
    [name |-> "swe_heliacal_pheno_ut", returnType |-> "number", params |-> <<"tjd_ut", "geopos", "datm", "dobs", "ObjectName", "TypeEvent", "helflag", "darr", "serr">>],
    [name |-> "swe_calc", returnType |-> "number", params |-> <<"tjd", "ipl", "iflag", "xx", "serr">>],
    [name |-> "swe_calc_ut", returnType |-> "number", params |-> <<"tjd_ut", "ipl", "iflag", "xx", "serr">>],
    [name |-> "swe_calc_pctr", returnType |-> "number", params |-> <<"tjd", "ipl", "iplctr", "iflag", "xxret", "serr">>],
    [name |-> "swe_solcross", returnType |-> "number", params |-> <<"x2cross", "jd_et", "flag", "serr">>],
    [name |-> "swe_solcross_ut", returnType |-> "number", params |-> <<"x2cross", "jd_ut", "flag", "serr">>],
    [name |-> "swe_mooncross", returnType |-> "number", params |-> <<"x2cross", "jd_et", "flag", "serr">>],
    [name |-> "swe_mooncross_ut", returnType |-> "number", params |-> <<"x2cross", "jd_ut", "flag", "serr">>],
    [name |-> "swe_mooncross_node", returnType |-> "number", params |-> <<"jd_et", "flag", "xlon", "xlat", "serr">>],
    [name |-> "swe_mooncross_node_ut", returnType |-> "number", params |-> <<"jd_ut", "flag", "xlon", "xlat", "serr">>],
    [name |-> "swe_helio_cross", returnType |-> "number", params |-> <<"ipl", "x2cross", "jd_et", "iflag", "dir", "jd_cross", "serr">>],
    [name |-> "swe_helio_cross_ut", returnType |-> "number", params |-> <<"ipl", "x2cross", "jd_ut", "iflag", "dir", "jd_cross", "serr">>],
    [name |-> "swe_pheno", returnType |-> "number", params |-> <<"tjd", "ipl", "iflag", "attr", "serr">>],
    [name |-> "swe_pheno_ut", returnType |-> "number", params |-> <<"tjd_ut", "ipl", "iflag", "attr", "serr">>],
    [name |-> "swe_nod_aps", returnType |-> "number", params |-> <<"tjd_et", "ipl", "iflag", "method", "xnasc", "xndsc", "xperi", "xaphe", "serr">>],
    [name |-> "swe_nod_aps_ut", returnType |-> "number", params |-> <<"tjd_ut", "ipl", "iflag", "method", "xnasc", "xndsc", "xperi", "xaphe", "serr">>],
    [name |-> "swe_get_orbital_elements", returnType |-> "number", params |-> <<"tjd_et", "ipl", "iflag", "dret", "serr">>],
    [name |-> "swe_fixstar", returnType |-> "number", params |-> <<"star", "tjd", "iflag", "xx", "serr">>],
    [name |-> "swe_fixstar_ut", returnType |-> "number", params |-> <<"star", "tjd_ut", "iflag", "xx", "serr">>],
    [name |-> "swe_fixstar_mag", returnType |-> "number", params |-> <<"star", "mag", "serr">>],
    [name |-> "swe_fixstar2", returnType |-> "number", params |-> <<"star", "tjd", "iflag", "xx", "serr">>],
    [name |-> "swe_fixstar2_ut", returnType |-> "number", params |-> <<"star", "tjd_ut", "iflag", "xx", "serr">>],
    [name |-> "swe_fixstar2_mag", returnType |-> "number", params |-> <<"star", "mag", "serr">>],
    [name |-> "swe_date_conversion", returnType |-> "number", params |-> <<"y", "m", "d", "utime", "c", "tjd">>],
    [name |-> "swe_julday", returnType |-> "number", params |-> <<"year", "month", "day", "hour", "gregflag">>],
    [name |-> "swe_revjul", returnType |-> "void", params |-> <<"jd", "gregflag", "jyear", "jmon", "jday", "jut">>],
    [name |-> "swe_utc_to_jd", returnType |-> "number", params |-> <<"iyear", "imonth", "iday", "ihour", "imin", "dsec", "gregflag", "dret", "serr">>],
    [name |-> "swe_jdet_to_utc", returnType |-> "void", params |-> <<"tjd_et", "gregflag", "iyear", "imonth", "iday", "ihour", "imin", "dsec">>],
    [name |-> "swe_jdut1_to_utc", returnType |-> "void", params |-> <<"tjd_ut", "gregflag", "iyear", "imonth", "iday", "ihour", "imin", "dsec">>],
    [name |-> "swe_utc_time_zone", returnType |-> "void", params |-> <<"iyear", "imonth", "iday", "ihour", "imin", "dsec", "d_timezone", "iyear_out", "imonth_out", "iday_out", "ihour_out", "imin_out", "dsec_out">>],
    [name |-> "swe_houses", returnType |-> "number", params |-> <<"tjd_ut", "geolat", "geolon", "hsys", "cusps", "ascmc">>],
    [name |-> "swe_houses_ex", returnType |-> "number", params |-> <<"tjd_ut", "iflag", "geolat", "geolon", "hsys", "cusps", "ascmc">>],
    [name |-> "swe_houses_ex2", returnType |-> "number", params |-> <<"tjd_ut", "iflag", "geolat", "geolon", "hsys", "cusps", "ascmc", "cusp_speed", "ascmc_speed", "serr">>],
    [name |-> "swe_houses_armc", returnType |-> "number", params |-> <<"armc", "geolat", "eps", "hsys", "cusps", "ascmc">>],
    [name |-> "swe_houses_armc_ex2", returnType |-> "number", params |-> <<"armc", "geolat", "eps", "hsys", "cusps", "ascmc", "cusp_speed", "ascmc_speed", "serr">>],
    [name |-> "swe_house_pos", returnType |-> "number", params |-> <<"armc", "geolat", "eps", "hsys", "xpin", "serr">>],
    [name |-> "swe_sol_eclipse_where", returnType |-> "number", params |-> <<"tjd", "ifl", "geopos", "attr", "serr">>],
    [name |-> "swe_lun_occult_where", returnType |-> "number", params |-> <<"tjd", "ipl", "starname", "ifl", "geopos", "attr", "serr">>],
    [name |-> "swe_sol_eclipse_how", returnType |-> "number", params |-> <<"tjd", "ifl", "geopos", "attr", "serr">>],
    [name |-> "swe_sol_eclipse_when_loc", returnType |-> "number", params |-> <<"tjd_start", "ifl", "geopos", "tret", "attr", "backward", "serr">>],
    [name |-> "swe_lun_occult_when_loc", returnType |-> "number", params |-> <<"tjd_start", "ipl", "starname", "ifl", "geopos", "tret", "attr", "backward", "serr">>],
    [name |-> "swe_sol_eclipse_when_glob", returnType |-> "number", params |-> <<"tjd_start", "ifl", "ifltype", "tret", "backward", "serr">>],
    [name |-> "swe_lun_occult_when_glob", returnType |-> "number", params |-> <<"tjd_start", "ipl", "starname", "ifl", "ifltype", "tret", "backward", "serr">>],
    [name |-> "swe_lun_eclipse_how", returnType |-> "number", params |-> <<"tjd_ut", "ifl", "geopos", "attr", "serr">>],
    [name |-> "swe_lun_eclipse_when", returnType |-> "number", params |-> <<"tjd_start", "ifl", "ifltype", "tret", "backward", "serr">>],
    [name |-> "swe_lun_eclipse_when_loc", returnType |-> "number", params |-> <<"tjd_start", "ifl", "geopos", "tret", "attr", "backward", "serr">>],
    [name |-> "swe_azalt", returnType |-> "void", params |-> <<"tjd_ut", "calc_flag", "geopos", "atpress", "attemp", "xin", "xaz">>],
    [name |-> "swe_azalt_rev", returnType |-> "void", params |-> <<"tjd_ut", "calc_flag", "geopos", "xin", "xout">>],
    [name |-> "swe_rise_trans_true_hor", returnType |-> "number", params |-> <<"tjd_ut", "ipl", "starname", "epheflag", "rsmi", "geopos", "atpress", "attemp", "horhgt", "tret", "serr">>],
    [name |-> "swe_rise_trans", returnType |-> "number", params |-> <<"tjd_ut", "ipl", "starname", "epheflag", "rsmi", "geopos", "atpress", "attemp", "tret", "serr">>],
    [name |-> "swe_heliacal_ut", returnType |-> "number", params |-> <<"tjdstart_ut", "geopos", "datm", "dobs", "ObjectName", "TypeEvent", "iflag", "dret", "serr">>],
    [name |-> "swe_vis_limit_mag", returnType |-> "number", params |-> <<"tjdut", "geopos", "datm", "dobs", "ObjectName", "helflag", "dret", "serr">>],
    [name |-> "swe_heliacal_angle", returnType |-> "number", params |-> <<"tjdut", "dgeo", "datm", "dobs", "helflag", "mag", "azi_obj", "azi_sun", "azi_moon", "alt_moon", "dret", "serr">>],
    [name |-> "swe_refrac", returnType |-> "number", params |-> <<"inalt", "atpress", "attemp", "calc_flag">>],
    [name |-> "swe_refrac_extended", returnType |-> "number", params |-> <<"inalt", "geoalt", "atpress", "attemp", "lapse_rate", "calc_flag", "dret">>],
    [name |-> "swe_cotrans", returnType |-> "void", params |-> <<"xpo", "xpn", "eps">>],
    [name |-> "swe_cotrans_sp", returnType |-> "void", params |-> <<"xpo", "xpn", "eps">>],
    [name |-> "swe_deltat", returnType |-> "number", params |-> <<"tjd">>],
    [name |-> "swe_deltat_ex", returnType |-> "number", params |-> <<"tjd", "iflag", "serr">>],
    [name |-> "swe_time_equ", returnType |-> "number", params |-> <<"tjd", "te", "serr">>],
    [name |-> "swe_lmt_to_lat", returnType |-> "number", params |-> <<"tjd_lmt", "geolon", "tjd_lat", "serr">>],
    [name |-> "swe_lat_to_lmt", returnType |-> "number", params |-> <<"tjd_lat", "geolon", "tjd_lmt", "serr">>],
    [name |-> "swe_set_sid_mode", returnType |-> "void", params |-> <<"sid_mode", "t0", "ayan_t0">>],
    [name |-> "swe_get_ayanamsa_ex", returnType |-> "number", params |-> <<"tjd_et", "iflag", "daya", "serr">>],
    [name |-> "swe_get_ayanamsa_ex_ut", returnType |-> "number", params |-> <<"tjd_ut", "iflag", "daya", "serr">>],
    [name |-> "swe_get_ayanamsa", returnType |-> "number", params |-> <<"tjd_et">>],
    [name |-> "swe_get_ayanamsa_ut", returnType |-> "number", params |-> <<"tjd_ut">>],
    [name |-> "swe_sidtime0", returnType |-> "number", params |-> <<"tjd_ut", "eps", "nut">>],
    [name |-> "swe_sidtime", returnType |-> "number", params |-> <<"tjd_ut">>],
    [name |-> "swe_degnorm", returnType |-> "number", params |-> <<"x">>],
    [name |-> "swe_radnorm", returnType |-> "number", params |-> <<"x">>],
    [name |-> "swe_rad_midp", returnType |-> "number", params |-> <<"x1", "x0">>],
    [name |-> "swe_deg_midp", returnType |-> "number", params |-> <<"x1", "x0">>],
    [name |-> "swe_split_deg", returnType |-> "void", params |-> <<"ddeg", "roundflag", "ideg", "imin", "isec", "dsecfr", "isgn">>],
    [name |-> "swe_csnorm", returnType |-> "number", params |-> <<"p">>],
    [name |-> "swe_difcsn", returnType |-> "number", params |-> <<"p1", "p2">>],
    [name |-> "swe_difdegn", returnType |-> "number", params |-> <<"p1", "p2">>],
    [name |-> "swe_difcs2n", returnType |-> "number", params |-> <<"p1", "p2">>],
    [name |-> "swe_difdeg2n", returnType |-> "number", params |-> <<"p1", "p2">>],
    [name |-> "swe_difrad2n", returnType |-> "number", params |-> <<"p1", "p2">>],
    [name |-> "swe_csroundsec", returnType |-> "number", params |-> <<"x">>],
    [name |-> "swe_d2l", returnType |-> "number", params |-> <<"x">>],
    [name |-> "swe_day_of_week", returnType |-> "number", params |-> <<"jd">>],
    [name |-> "swe_topo_arcus_visionis", returnType |-> "number", params |-> <<"tjdut", "dgeo", "datm", "dobs", "helflag", "mag", "azi_obj", "alt_obj", "azi_sun", "azi_moon", "alt_moon", "dret", "serr">>],
    [name |-> "swe_set_astro_models", returnType |-> "void", params |-> <<"samod", "iflag">>],
    [name |-> "swe_get_astro_models", returnType |-> "void", params |-> <<"samod", "sdet", "iflag">>],
    [name |-> "swe_close", returnType |-> "void", params |-> <<>>],
    [name |-> "swe_set_ephe_path", returnType |-> "void", params |-> <<"path">>],
    [name |-> "swe_set_jpl_file", returnType |-> "void", params |-> <<"fname">>],
    [name |-> "swe_get_planet_name", returnType |-> "number", params |-> <<"ipl", "spname">>],
    [name |-> "swe_set_topo", returnType |-> "void", params |-> <<"geolon", "geolat", "geoalt">>],
    [name |-> "swe_gauquelin_sector", returnType |-> "number", params |-> <<"t_ut", "ipl", "starname", "iflag", "imeth", "geopos", "atpress", "attemp", "dgsect", "serr">>],
    [name |-> "swe_set_lapse_rate", returnType |-> "void", params |-> <<"lapse_rate">>],
    [name |-> "swe_orbit_max_min_true_distance", returnType |-> "number", params |-> <<"tjd_et", "ipl", "iflag", "dmax", "dmin", "dtrue", "serr">>],
    [name |-> "swe_set_interpolate_nut", returnType |-> "void", params |-> <<"do_interpolate">>],
    [name |-> "swe_get_tid_acc", returnType |-> "number", params |-> <<>>],
    [name |-> "swe_set_tid_acc", returnType |-> "void", params |-> <<"t_acc">>],
    [name |-> "swe_set_delta_t_userdef", returnType |-> "void", params |-> <<"dt">>]
  >>
\* the names of the constants of the generated constants.ts, in order
generatedConstantNames ==
  <<
    "SE_JUL_CAL", "SE_GREG_CAL", "SE_SUN", "SE_MOON", "SE_MERCURY",
    "SE_VENUS", "SE_MARS", "SE_JUPITER", "SE_SATURN", "SE_URANUS",
    "SE_NEPTUNE", "SE_PLUTO", "SE_MEAN_NODE", "SE_TRUE_NODE", "SE_MEAN_APOG",
    "SE_OSCU_APOG", "SE_EARTH", "SE_CHIRON", "SE_PHOLUS", "SE_CERES",
    "SE_PALLAS", "SE_JUNO", "SE_VESTA", "SE_NPLANETS", "SE_CUPIDO",
    "SE_HADES", "SE_ZEUS", "SE_KRONOS", "SE_APOLLON", "SE_ADMETOS",
    "SE_VULKANUS", "SE_POSEIDON", "SE_ISIS", "SE_NIBIRU", "SE_HARRINGTON",
    "SE_NEPTUNE_LEVERRIER", "SE_NEPTUNE_ADAMS", "SE_PLUTO_LOWELL",
    "SE_PLUTO_PICKERING", "SE_VULCAN", "SE_WHITE_MOON", "SE_PROSERPINA",
    "SE_WALDEMATH", "SE_PLMOON_OFFSET", "SE_AST_OFFSET", "SE_VARUNA",
    "SE_FICT_OFFSET", "SE_FICT_OFFSET_1", "SE_FICT_MAX", "SE_NFICT_ELEM",
    "SE_COMET_OFFSET", "SE_NALL_NAT_POINTS", "SE_ASC", "SE_MC", "SE_ARMC",
    "SE_VERTEX", "SE_EQUASC", "SE_COASC1", "SE_COASC2", "SE_POLASC",
    "SE_NASCMC", "SEFLG_JPLEPH", "SEFLG_SWIEPH", "SEFLG_MOSEPH",
    "SEFLG_HELCTR", "SEFLG_TRUEPOS", "SEFLG_J2000", "SEFLG_NONUT",
    "SEFLG_SPEED3", "SEFLG_SPEED", "SEFLG_NOGDEFL", "SEFLG_NOABERR",
    "SEFLG_ASTROMETRIC", "SEFLG_EQUATORIAL", "SEFLG_XYZ", "SEFLG_RADIANS",
    "SEFLG_BARYCTR", "SEFLG_TOPOCTR", "SEFLG_ORBEL_AA", "SEFLG_TROPICAL",
    "SEFLG_SIDEREAL", "SEFLG_ICRS", "SEFLG_DPSIDEPS_1980", "SEFLG_JPLHOR",
    "SEFLG_JPLHOR_APPROX", "SEFLG_CENTER_BODY", "SEFLG_TEST_PLMOON",
    "SEFLG_DEFAULTEPH", "SE_SIDBITS", "SE_SIDBIT_ECL_T0",
    "SE_SIDBIT_SSY_PLANE", "SE_SIDBIT_USER_UT", "SE_SIDBIT_ECL_DATE",
    "SE_SIDBIT_NO_PREC_OFFSET", "SE_SIDBIT_PREC_ORIG",
    "SE_SIDM_FAGAN_BRADLEY", "SE_SIDM_LAHIRI", "SE_SIDM_DELUCE",
    "SE_SIDM_RAMAN", "SE_SIDM_USHASHASHI", "SE_SIDM_KRISHNAMURTI",
    "SE_SIDM_DJWHAL_KHUL", "SE_SIDM_YUKTESHWAR", "SE_SIDM_JN_BHASIN",
    "SE_SIDM_BABYL_KUGLER1", "SE_SIDM_BABYL_KUGLER2",
    "SE_SIDM_BABYL_KUGLER3", "SE_SIDM_BABYL_HUBER", "SE_SIDM_BABYL_ETPSC",
    "SE_SIDM_ALDEBARAN_15TAU", "SE_SIDM_HIPPARCHOS", "SE_SIDM_SASSANIAN",
    "SE_SIDM_GALCENT_0SAG", "SE_SIDM_J2000", "SE_SIDM_J1900",
    "SE_SIDM_B1950", "SE_SIDM_SURYASIDDHANTA", "SE_SIDM_SURYASIDDHANTA_MSUN",
    "SE_SIDM_ARYABHATA", "SE_SIDM_ARYABHATA_MSUN", "SE_SIDM_SS_REVATI",
    "SE_SIDM_SS_CITRA", "SE_SIDM_TRUE_CITRA", "SE_SIDM_TRUE_REVATI",
    "SE_SIDM_TRUE_PUSHYA", "SE_SIDM_GALCENT_RGILBRAND",
    "SE_SIDM_GALEQU_IAU1958", "SE_SIDM_GALEQU_TRUE", "SE_SIDM_GALEQU_MULA",
    "SE_SIDM_GALALIGN_MARDYKS", "SE_SIDM_TRUE_MULA",
    "SE_SIDM_GALCENT_MULA_WILHELM", "SE_SIDM_ARYABHATA_522",
    "SE_SIDM_BABYL_BRITTON", "SE_SIDM_TRUE_SHEORAN",
    "SE_SIDM_GALCENT_COCHRANE", "SE_SIDM_GALEQU_FIORENZA",
    "SE_SIDM_VALENS_MOON", "SE_SIDM_LAHIRI_1940", "SE_SIDM_LAHIRI_VP285",
    "SE_SIDM_KRISHNAMURTI_VP291", "SE_SIDM_LAHIRI_ICRC", "SE_SIDM_USER",
    "SE_NODBIT_MEAN", "SE_NODBIT_OSCU", "SE_NODBIT_OSCU_BAR",
    "SE_NODBIT_FOPOINT", "SE_ECL_NUT", "SE_ECL_CENTRAL", "SE_ECL_NONCENTRAL",
    "SE_ECL_TOTAL", "SE_ECL_ANNULAR", "SE_ECL_PARTIAL",
    "SE_ECL_ANNULAR_TOTAL", "SE_ECL_HYBRID", "SE_ECL_PENUMBRAL",
    "SE_ECL_ALLTYPES_SOLAR", "SE_ECL_ALLTYPES_LUNAR", "SE_ECL_VISIBLE",
    "SE_ECL_MAX_VISIBLE", "SE_ECL_1ST_VISIBLE", "SE_ECL_PARTBEG_VISIBLE",
    "SE_ECL_2ND_VISIBLE", "SE_ECL_TOTBEG_VISIBLE", "SE_ECL_3RD_VISIBLE",
    "SE_ECL_TOTEND_VISIBLE", "SE_ECL_4TH_VISIBLE", "SE_ECL_PARTEND_VISIBLE",
    "SE_ECL_PENUMBBEG_VISIBLE", "SE_ECL_PENUMBEND_VISIBLE",
    "SE_ECL_OCC_BEG_DAYLIGHT", "SE_ECL_OCC_END_DAYLIGHT", "SE_ECL_ONE_TRY",
    "SE_CALC_RISE", "SE_CALC_SET", "SE_CALC_MTRANSIT", "SE_CALC_ITRANSIT",
    "SE_BIT_DISC_CENTER", "SE_BIT_DISC_BOTTOM", "SE_BIT_GEOCTR_NO_ECL_LAT",
    "SE_BIT_NO_REFRACTION", "SE_BIT_CIVIL_TWILIGHT",
    "SE_BIT_NAUTIC_TWILIGHT", "SE_BIT_ASTRO_TWILIGHT",
    "SE_BIT_FIXED_DISC_SIZE", "SE_BIT_FORCE_SLOW_METHOD",
    "SE_BIT_HINDU_RISING", "SE_ECL2HOR", "SE_EQU2HOR", "SE_HOR2ECL",
    "SE_HOR2EQU", "SE_TRUE_TO_APP", "SE_APP_TO_TRUE", "SE_HELIACAL_RISING",
    "SE_HELIACAL_SETTING", "SE_MORNING_FIRST", "SE_EVENING_LAST",
    "SE_EVENING_FIRST", "SE_MORNING_LAST", "SE_ACRONYCHAL_RISING",
    "SE_ACRONYCHAL_SETTING", "SE_COSMICAL_SETTING", "SE_HELFLAG_LONG_SEARCH",
    "SE_HELFLAG_HIGH_PRECISION", "SE_HELFLAG_OPTICAL_PARAMS",
    "SE_HELFLAG_NO_DETAILS", "SE_HELFLAG_SEARCH_1_PERIOD",
    "SE_HELFLAG_VISLIM_DARK", "SE_HELFLAG_VISLIM_NOMOON",
    "SE_HELFLAG_VISLIM_PHOTOPIC", "SE_HELFLAG_VISLIM_SCOTOPIC",
    "SE_HELFLAG_AV", "SE_HELFLAG_AVKIND_VR", "SE_HELFLAG_AVKIND_PTO",
    "SE_HELFLAG_AVKIND_MIN7", "SE_HELFLAG_AVKIND_MIN9", "SE_HELFLAG_AVKIND",
    "SE_HELIACAL_LONG_SEARCH", "SE_HELIACAL_HIGH_PRECISION",
    "SE_HELIACAL_OPTICAL_PARAMS", "SE_HELIACAL_NO_DETAILS",
    "SE_HELIACAL_SEARCH_1_PERIOD", "SE_HELIACAL_VISLIM_DARK",
    "SE_HELIACAL_VISLIM_NOMOON", "SE_HELIACAL_VISLIM_PHOTOPIC",
    "SE_HELIACAL_AVKIND_VR", "SE_HELIACAL_AVKIND_PTO",
    "SE_HELIACAL_AVKIND_MIN7", "SE_HELIACAL_AVKIND_MIN9",
    "SE_HELIACAL_AVKIND", "SE_PHOTOPIC_FLAG", "SE_SCOTOPIC_FLAG",
    "SE_MIXEDOPIC_FLAG", "SE_SPLIT_DEG_ROUND_SEC", "SE_SPLIT_DEG_ROUND_MIN",
    "SE_SPLIT_DEG_ROUND_DEG", "SE_SPLIT_DEG_ZODIACAL",
    "SE_SPLIT_DEG_NAKSHATRA", "SE_SPLIT_DEG_KEEP_SIGN",
    "SE_SPLIT_DEG_KEEP_DEG", "SE_TIDAL_DE200", "SE_TIDAL_DE403",
    "SE_TIDAL_DE404", "SE_TIDAL_DE405", "SE_TIDAL_DE406", "SE_TIDAL_DE421",
    "SE_TIDAL_DE422", "SE_TIDAL_DE430", "SE_TIDAL_DE431", "SE_TIDAL_DE441",
    "SE_TIDAL_26", "SE_TIDAL_STEPHENSON_2016", "SE_TIDAL_DEFAULT",
    "SE_TIDAL_AUTOMATIC", "SE_TIDAL_MOSEPH", "SE_TIDAL_SWIEPH",
    "SE_TIDAL_JPLEPH", "SE_DELTAT_AUTOMATIC", "SE_MODEL_DELTAT",
    "SE_MODEL_PREC_LONGTERM", "SE_MODEL_PREC_SHORTTERM", "SE_MODEL_NUT",
    "SE_MODEL_BIAS", "SE_MODEL_JPLHOR_MODE", "SE_MODEL_JPLHORA_MODE",
    "SE_MODEL_SIDT", "NSE_MODELS", "SEMOD_NPREC", "SEMOD_PREC_IAU_1976",
    "SEMOD_PREC_LASKAR_1986", "SEMOD_PREC_WILL_EPS_LASK",
    "SEMOD_PREC_WILLIAMS_1994", "SEMOD_PREC_SIMON_1994",
    "SEMOD_PREC_IAU_2000", "SEMOD_PREC_BRETAGNON_2003",
    "SEMOD_PREC_IAU_2006", "SEMOD_PREC_VONDRAK_2011", "SEMOD_PREC_OWEN_1990",
    "SEMOD_PREC_NEWCOMB", "SEMOD_PREC_DEFAULT", "SEMOD_PREC_DEFAULT_SHORT",
    "SEMOD_NNUT", "SEMOD_NUT_IAU_1980", "SEMOD_NUT_IAU_CORR_1987",
    "SEMOD_NUT_IAU_2000A", "SEMOD_NUT_IAU_2000B", "SEMOD_NUT_WOOLARD",
    "SEMOD_NUT_DEFAULT", "SEMOD_NSIDT", "SEMOD_SIDT_IAU_1976",
    "SEMOD_SIDT_IAU_2006", "SEMOD_SIDT_IERS_CONV_2010",
    "SEMOD_SIDT_LONGTERM", "SEMOD_SIDT_DEFAULT", "SEMOD_NBIAS",
    "SEMOD_BIAS_NONE", "SEMOD_BIAS_IAU2000", "SEMOD_BIAS_IAU2006",
    "SEMOD_BIAS_DEFAULT", "SEMOD_NJPLHOR", "SEMOD_JPLHOR_LONG_AGREEMENT",
    "SEMOD_JPLHOR_DEFAULT", "SEMOD_NJPLHORA", "SEMOD_JPLHORA_1",
    "SEMOD_JPLHORA_2", "SEMOD_JPLHORA_3", "SEMOD_JPLHORA_DEFAULT",
    "SEMOD_NDELTAT", "SEMOD_DELTAT_STEPHENSON_MORRISON_1984",
    "SEMOD_DELTAT_STEPHENSON_1997", "SEMOD_DELTAT_STEPHENSON_MORRISON_2004",
    "SEMOD_DELTAT_ESPENAK_MEEUS_2006", "SEMOD_DELTAT_STEPHENSON_ETC_2016",
    "SEMOD_DELTAT_DEFAULT", "SE_FIXSTAR", "SE_MAX_STNAME", "SE_INTP_APOG",
    "SE_INTP_PERG", "SE_NSIDM_PREDEF", "SE_DE_NUMBER"
  >>

\* the characters of every literal the model turns into text, in parts
Chars1 ==
  ("" :> <<>>)
  @@ (" " :> <<" ">>)
  @@ ("  " :> <<" ", " ">>)
  @@ ("  /** Allocate memory */" :> <<" ", " ", "/", "*", "*", " ", "A", "l", "l", "o", "c", "a", "t", "e", " ", "m", "e", "m", "o", "r", "y", " ", "*", "/">>)
  @@ ("  /** Free memory */" :> <<" ", " ", "/", "*", "*", " ", "F", "r", "e", "e", " ", "m", "e", "m", "o", "r", "y", " ", "*", "/">>)
  @@ ("  /** WebAssembly linear memory */" :> <<" ", " ", "/", "*", "*", " ", "W", "e", "b", "A", "s", "s", "e", "m", "b", "l", "y", " ", "l", "i", "n", "e", "a", "r", " ", "m", "e", "m", "o", "r", "y", " ", "*", "/">>)
  @@ ("  // " :> <<" ", " ", "/", "/", " ">>)
  @@ ("  free(ptr: number): void;" :> <<" ", " ", "f", "r", "e", "e", "(", "p", "t", "r", ":", " ", "n", "u", "m", "b", "e", "r", ")", ":", " ", "v", "o", "i", "d", ";">>)
  @@ ("  malloc(size: number): number;" :> <<" ", " ", "m", "a", "l", "l", "o", "c", "(", "s", "i", "z", "e", ":", " ", "n", "u", "m", "b", "e", "r", ")", ":", " ", "n", "u", "m", "b", "e", "r", ";">>)
  @@ ("  memory: WebAssembly.Memory;" :> <<" ", " ", "m", "e", "m", "o", "r", "y", ":", " ", "W", "e", "b", "A", "s", "s", "e", "m", "b", "l", "y", ".", "M", "e", "m", "o", "r", "y", ";">>)
  @@ (" * All pointer parameters (double*, int*, char*) are memory addresses (number)." :> <<" ", "*", " ", "A", "l", "l", " ", "p", "o", "i", "n", "t", "e", "r", " ", "p", "a", "r", "a", "m", "e", "t", "e", "r", "s", " ", "(", "d", "o", "u", "b", "l", "e", "*", ",", " ", "i", "n", "t", "*", ",", " ", "c", "h", "a", "r", "*", ")", " ", "a", "r", "e", " ", "m", "e", "m", "o", "r", "y", " ", "a", "d", "d", "r", "e", "s", "s", "e", "s", " ", "(", "n", "u", "m", "b", "e", "r", ")", ".">>)
  @@ (" * Auto-generated - DO NOT EDIT" :> <<" ", "*", " ", "A", "u", "t", "o", "-", "g", "e", "n", "e", "r", "a", "t", "e", "d", " ", "-", " ", "D", "O", " ", "N", "O", "T", " ", "E", "D", "I", "T">>)
  @@ (" * Auto-generated from swephexp.h - DO NOT EDIT" :> <<" ", "*", " ", "A", "u", "t", "o", "-", "g", "e", "n", "e", "r", "a", "t", "e", "d", " ", "f", "r", "o", "m", " ", "s", "w", "e", "p", "h", "e", "x", "p", ".", "h", " ", "-", " ", "D", "O", " ", "N", "O", "T", " ", "E", "D", "I", "T">>)
  @@ (" * Raw exports from the Swiss Ephemeris WASM module." :> <<" ", "*", " ", "R", "a", "w", " ", "e", "x", "p", "o", "r", "t", "s", " ", "f", "r", "o", "m", " ", "t", "h", "e", " ", "S", "w", "i", "s", "s", " ", "E", "p", "h", "e", "m", "e", "r", "i", "s", " ", "W", "A", "S", "M", " ", "m", "o", "d", "u", "l", "e", ".">>)
  @@ (" * Swiss Ephemeris Constants" :> <<" ", "*", " ", "S", "w", "i", "s", "s", " ", "E", "p", "h", "e", "m", "e", "r", "i", "s", " ", "C", "o", "n", "s", "t", "a", "n", "t", "s">>)
  @@ (" * Swiss Ephemeris Generated Bindings" :> <<" ", "*", " ", "S", "w", "i", "s", "s", " ", "E", "p", "h", "e", "m", "e", "r", "i", "s", " ", "G", "e", "n", "e", "r", "a", "t", "e", "d", " ", "B", "i", "n", "d", "i", "n", "g", "s">>)
  @@ (" * Swiss Ephemeris WASM Interface" :> <<" ", "*", " ", "S", "w", "i", "s", "s", " ", "E", "p", "h", "e", "m", "e", "r", "i", "s", " ", "W", "A", "S", "M", " ", "I", "n", "t", "e", "r", "f", "a", "c", "e">>)
  @@ (" * Use the memory utilities to read/write values at these addresses." :> <<" ", "*", " ", "U", "s", "e", " ", "t", "h", "e", " ", "m", "e", "m", "o", "r", "y", " ", "u", "t", "i", "l", "i", "t", "i", "e", "s", " ", "t", "o", " ", "r", "e", "a", "d", "/", "w", "r", "i", "t", "e", " ", "v", "a", "l", "u", "e", "s", " ", "a", "t", " ", "t", "h", "e", "s", "e", " ", "a", "d", "d", "r", "e", "s", "s", "e", "s", ".">>)
  @@ (" */" :> <<" ", "*", "/">>)
  @@ (" // " :> <<" ", "/", "/", " ">>)
  @@ (" = " :> <<" ", "=", " ">>)
  @@ (" char *serr" :> <<" ", "c", "h", "a", "r", " ", "*", "s", "e", "r", "r">>)
  @@ ("# Add this to Makefile.wasm EXPORTED_FUNCTIONS" :> <<"#", " ", "A", "d", "d", " ", "t", "h", "i", "s", " ", "t", "o", " ", "M", "a", "k", "e", "f", "i", "l", "e", ".", "w", "a", "s", "m", " ", "E", "X", "P", "O", "R", "T", "E", "D", "_", "F", "U", "N", "C", "T", "I", "O", "N", "S">>)
  @@ ("# Function count: " :> <<"#", " ", "F", "u", "n", "c", "t", "i", "o", "n", " ", "c", "o", "u", "n", "t", ":", " ">>)
  @@ ("(" :> <<"(">>)
  @@ ("(SE_SIDBITS - 1)" :> <<"(", "S", "E", "_", "S", "I", "D", "B", "I", "T", "S", " ", "-", " ", "1", ")">>)
  @@ ("(SE_SUN+SE_MC)" :> <<"(", "S", "E", "_", "S", "U", "N", "+", "S", "E", "_", "M", "C", ")">>)
  @@ ("(SE_SUN|SE_MC)" :> <<"(", "S", "E", "_", "S", "U", "N", "|", "S", "E", "_", "M", "C", ")">>)
  @@ ("): " :> <<")", ":", " ">>)
  @@ (", " :> <<",", " ">>)
  @@ ("/**" :> <<"/", "*", "*">>)
  @@ ("// " :> <<"/", "/", " ">>)
  @@ ("0" :> <<"0">>)
  @@ ("1" :> <<"1">>)
  @@ ("1 << 0" :> <<"1", " ", "<", "<", " ", "0">>)
  @@ ("256 // bits" :> <<"2", "5", "6", " ", "/", "/", " ", "b", "i", "t", "s">>)
  @@ ("99999999.0" :> <<"9", "9", "9", "9", "9", "9", "9", "9", ".", "0">>)
  @@ (": " :> <<":", " ">>)
  @@ (";" :> <<";">>)
  @@ ("ADMETOS" :> <<"A", "D", "M", "E", "T", "O", "S">>)
  @@ ("APOLLON" :> <<"A", "P", "O", "L", "L", "O", "N">>)
  @@ ("APP_TO_TRUE" :> <<"A", "P", "P", "_", "T", "O", "_", "T", "R", "U", "E">>)
  @@ ("ARMC" :> <<"A", "R", "M", "C">>)
  @@ ("ASC" :> <<"A", "S", "C">>)
  @@ ("AST_OFFSET" :> <<"A", "S", "T", "_", "O", "F", "F", "S", "E", "T">>)
  @@ ("AYANAMSA" :> <<"A", "Y", "A", "N", "A", "M", "S", "A">>)
  @@ ("CALC_FLAGS" :> <<"C", "A", "L", "C", "_", "F", "L", "A", "G", "S">>)
  @@ ("CALENDAR" :> <<"C", "A", "L", "E", "N", "D", "A", "R">>)
  @@ ("CALLOC" :> <<"C", "A", "L", "L", "O", "C">>)
  @@ ("CALL_CONV" :> <<"C", "A", "L", "L", "_", "C", "O", "N", "V">>)
  @@ ("CERES" :> <<"C", "E", "R", "E", "S">>)
  @@ ("CHIRON" :> <<"C", "H", "I", "R", "O", "N">>)
  @@ ("COASC1" :> <<"C", "O", "A", "S", "C", "1">>)
  @@ ("COASC2" :> <<"C", "O", "A", "S", "C", "2">>)
  @@ ("COMET_OFFSET" :> <<"C", "O", "M", "E", "T", "_", "O", "F", "F", "S", "E", "T">>)
  @@ ("COORDINATE_TRANSFORM" :> <<"C", "O", "O", "R", "D", "I", "N", "A", "T", "E", "_", "T", "R", "A", "N", "S", "F", "O", "R", "M">>)
  @@ ("CUPIDO" :> <<"C", "U", "P", "I", "D", "O">>)
  @@ ("Coordinate Transforms" :> <<"C", "o", "o", "r", "d", "i", "n", "a", "t", "e", " ", "T", "r", "a", "n", "s", "f", "o", "r", "m", "s">>)
  @@ ("Core Calculations" :> <<"C", "o", "r", "e", " ", "C", "a", "l", "c", "u", "l", "a", "t", "i", "o", "n", "s">>)
  @@ ("DELTAT" :> <<"D", "E", "L", "T", "A", "T">>)
  @@ ("Date/Time" :> <<"D", "a", "t", "e", "/", "T", "i", "m", "e">>)
  @@ ("Delta T" :> <<"D", "e", "l", "t", "a", " ", "T">>)
  @@ ("E" :> <<"E">>)
  @@ ("EARTH" :> <<"E", "A", "R", "T", "H">>)
  @@ ("ECL2HOR" :> <<"E", "C", "L", "2", "H", "O", "R">>)
  @@ ("ECLIPSE" :> <<"E", "C", "L", "I", "P", "S", "E">>)
  @@ ("ECL_NUT" :> <<"E", "C", "L", "_", "N", "U", "T">>)
  @@ ("EQU2HOR" :> <<"E", "Q", "U", "2", "H", "O", "R">>)
  @@ ("EQUASC" :> <<"E", "Q", "U", "A", "S", "C">>)
  @@ ("EXP32" :> <<"E", "X", "P", "3", "2">>)
  @@ ("EXPORTED_FUNCTIONS='[" :> <<"E", "X", "P", "O", "R", "T", "E", "D", "_", "F", "U", "N", "C", "T", "I", "O", "N", "S", "=", "'", "[">>)
  @@ ("Eclipses" :> <<"E", "c", "l", "i", "p", "s", "e", "s">>)
  @@ ("FICTITIOUS_PLANETS" :> <<"F", "I", "C", "T", "I", "T", "I", "O", "U", "S", "_", "P", "L", "A", "N", "E", "T", "S">>)
  @@ ("FICT_MAX" :> <<"F", "I", "C", "T", "_", "M", "A", "X">>)
  @@ ("FICT_OFFSET" :> <<"F", "I", "C", "T", "_", "O", "F", "F", "S", "E", "T">>)
  @@ ("FICT_OFFSET_1" :> <<"F", "I", "C", "T", "_", "O", "F", "F", "S", "E", "T", "_", "1">>)
  @@ ("FIXSTAR" :> <<"F", "I", "X", "S", "T", "A", "R">>)
  @@ ("FREE" :> <<"F", "R", "E", "E">>)
  @@ ("Fixed Stars" :> <<"F", "i", "x", "e", "d", " ", "S", "t", "a", "r", "s">>)
  @@ ("GREG_CAL" :> <<"G", "R", "E", "G", "_", "C", "A", "L">>)

Chars2 ==
  ("Gregorian" :> <<"G", "r", "e", "g", "o", "r", "i", "a", "n">>)
  @@ ("HADES" :> <<"H", "A", "D", "E", "S">>)
  @@ ("HARRINGTON" :> <<"H", "A", "R", "R", "I", "N", "G", "T", "O", "N">>)
  @@ ("HELIACAL" :> <<"H", "E", "L", "I", "A", "C", "A", "L">>)
  @@ ("HOR2ECL" :> <<"H", "O", "R", "2", "E", "C", "L">>)
  @@ ("HOR2EQU" :> <<"H", "O", "R", "2", "E", "Q", "U">>)
  @@ ("HOUSE_POINTS" :> <<"H", "O", "U", "S", "E", "_", "P", "O", "I", "N", "T", "S">>)
  @@ ("Heliacal" :> <<"H", "e", "l", "i", "a", "c", "a", "l">>)
  @@ ("Houses" :> <<"H", "o", "u", "s", "e", "s">>)
  @@ ("INTP_" :> <<"I", "N", "T", "P", "_">>)
  @@ ("ISIS" :> <<"I", "S", "I", "S">>)
  @@ ("JUL_CAL" :> <<"J", "U", "L", "_", "C", "A", "L">>)
  @@ ("JUNO" :> <<"J", "U", "N", "O">>)
  @@ ("JUPITER" :> <<"J", "U", "P", "I", "T", "E", "R">>)
  @@ ("KRONOS" :> <<"K", "R", "O", "N", "O", "S">>)
  @@ ("MALLOC" :> <<"M", "A", "L", "L", "O", "C">>)
  @@ ("MARS" :> <<"M", "A", "R", "S">>)
  @@ ("MC" :> <<"M", "C">>)
  @@ ("MEAN_APOG" :> <<"M", "E", "A", "N", "_", "A", "P", "O", "G">>)
  @@ ("MEAN_NODE" :> <<"M", "E", "A", "N", "_", "N", "O", "D", "E">>)
  @@ ("MERCURY" :> <<"M", "E", "R", "C", "U", "R", "Y">>)
  @@ ("MIXEDOPIC_FLAG" :> <<"M", "I", "X", "E", "D", "O", "P", "I", "C", "_", "F", "L", "A", "G">>)
  @@ ("MODELS" :> <<"M", "O", "D", "E", "L", "S">>)
  @@ ("MODEL_VALUES" :> <<"M", "O", "D", "E", "L", "_", "V", "A", "L", "U", "E", "S">>)
  @@ ("MOON" :> <<"M", "O", "O", "N">>)
  @@ ("MY_FALSE" :> <<"M", "Y", "_", "F", "A", "L", "S", "E">>)
  @@ ("MY_TRUE" :> <<"M", "Y", "_", "T", "R", "U", "E">>)
  @@ ("NALL_NAT_POINTS" :> <<"N", "A", "L", "L", "_", "N", "A", "T", "_", "P", "O", "I", "N", "T", "S">>)
  @@ ("NASCMC" :> <<"N", "A", "S", "C", "M", "C">>)
  @@ ("NEPTUNE" :> <<"N", "E", "P", "T", "U", "N", "E">>)
  @@ ("NEPTUNE_ADAMS" :> <<"N", "E", "P", "T", "U", "N", "E", "_", "A", "D", "A", "M", "S">>)
  @@ ("NEPTUNE_LEVERRIER" :> <<"N", "E", "P", "T", "U", "N", "E", "_", "L", "E", "V", "E", "R", "R", "I", "E", "R">>)
  @@ ("NFICT_ELEM" :> <<"N", "F", "I", "C", "T", "_", "E", "L", "E", "M">>)
  @@ ("NIBIRU" :> <<"N", "I", "B", "I", "R", "U">>)
  @@ ("NODE_APSIDES" :> <<"N", "O", "D", "E", "_", "A", "P", "S", "I", "D", "E", "S">>)
  @@ ("NPLANETS" :> <<"N", "P", "L", "A", "N", "E", "T", "S">>)
  @@ ("NSE_MODEL" :> <<"N", "S", "E", "_", "M", "O", "D", "E", "L">>)
  @@ ("NSE_MODELS" :> <<"N", "S", "E", "_", "M", "O", "D", "E", "L", "S">>)
  @@ ("OFFSETS" :> <<"O", "F", "F", "S", "E", "T", "S">>)
  @@ ("OPTIC" :> <<"O", "P", "T", "I", "C">>)
  @@ ("OSCU_APOG" :> <<"O", "S", "C", "U", "_", "A", "P", "O", "G">>)
  @@ ("OTHER" :> <<"O", "T", "H", "E", "R">>)
  @@ ("ObjectName" :> <<"O", "b", "j", "e", "c", "t", "N", "a", "m", "e">>)
  @@ ("Other" :> <<"O", "t", "h", "e", "r">>)
  @@ ("PALLAS" :> <<"P", "A", "L", "L", "A", "S">>)
  @@ ("PHOLUS" :> <<"P", "H", "O", "L", "U", "S">>)
  @@ ("PHOTOPIC_FLAG" :> <<"P", "H", "O", "T", "O", "P", "I", "C", "_", "F", "L", "A", "G">>)
  @@ ("PLANETS" :> <<"P", "L", "A", "N", "E", "T", "S">>)
  @@ ("PLMOON_OFFSET" :> <<"P", "L", "M", "O", "O", "N", "_", "O", "F", "F", "S", "E", "T">>)
  @@ ("PLUTO" :> <<"P", "L", "U", "T", "O">>)
  @@ ("PLUTO_LOWELL" :> <<"P", "L", "U", "T", "O", "_", "L", "O", "W", "E", "L", "L">>)
  @@ ("PLUTO_PICKERING" :> <<"P", "L", "U", "T", "O", "_", "P", "I", "C", "K", "E", "R", "I", "N", "G">>)
  @@ ("POLASC" :> <<"P", "O", "L", "A", "S", "C">>)
  @@ ("POSEIDON" :> <<"P", "O", "S", "E", "I", "D", "O", "N">>)
  @@ ("PROSERPINA" :> <<"P", "R", "O", "S", "E", "R", "P", "I", "N", "A">>)
  @@ ("REFRACTION" :> <<"R", "E", "F", "R", "A", "C", "T", "I", "O", "N">>)
  @@ ("RISE_TRANSIT" :> <<"R", "I", "S", "E", "_", "T", "R", "A", "N", "S", "I", "T">>)
  @@ ("Rise/Transit" :> <<"R", "i", "s", "e", "/", "T", "r", "a", "n", "s", "i", "t">>)
  @@ ("S" :> <<"S">>)
  @@ ("SATURN" :> <<"S", "A", "T", "U", "R", "N">>)
  @@ ("SCOTOPIC_FLAG" :> <<"S", "C", "O", "T", "O", "P", "I", "C", "_", "F", "L", "A", "G">>)
  @@ ("SEFLG" :> <<"S", "E", "F", "L", "G">>)
  @@ ("SEFLG_" :> <<"S", "E", "F", "L", "G", "_">>)
  @@ ("SEFLG_ASTROMETRIC" :> <<"S", "E", "F", "L", "G", "_", "A", "S", "T", "R", "O", "M", "E", "T", "R", "I", "C">>)
  @@ ("SEFLG_BARYCTR" :> <<"S", "E", "F", "L", "G", "_", "B", "A", "R", "Y", "C", "T", "R">>)
  @@ ("SEFLG_CENTER_BODY" :> <<"S", "E", "F", "L", "G", "_", "C", "E", "N", "T", "E", "R", "_", "B", "O", "D", "Y">>)
  @@ ("SEFLG_DEFAULTEPH" :> <<"S", "E", "F", "L", "G", "_", "D", "E", "F", "A", "U", "L", "T", "E", "P", "H">>)
  @@ ("SEFLG_DPSIDEPS_1980" :> <<"S", "E", "F", "L", "G", "_", "D", "P", "S", "I", "D", "E", "P", "S", "_", "1", "9", "8", "0">>)
  @@ ("SEFLG_EQUATORIAL" :> <<"S", "E", "F", "L", "G", "_", "E", "Q", "U", "A", "T", "O", "R", "I", "A", "L">>)
  @@ ("SEFLG_HELCTR" :> <<"S", "E", "F", "L", "G", "_", "H", "E", "L", "C", "T", "R">>)
  @@ ("SEFLG_ICRS" :> <<"S", "E", "F", "L", "G", "_", "I", "C", "R", "S">>)
  @@ ("SEFLG_J2000" :> <<"S", "E", "F", "L", "G", "_", "J", "2", "0", "0", "0">>)
  @@ ("SEFLG_JPLEPH" :> <<"S", "E", "F", "L", "G", "_", "J", "P", "L", "E", "P", "H">>)
  @@ ("SEFLG_JPLHOR" :> <<"S", "E", "F", "L", "G", "_", "J", "P", "L", "H", "O", "R">>)
  @@ ("SEFLG_JPLHOR_APPROX" :> <<"S", "E", "F", "L", "G", "_", "J", "P", "L", "H", "O", "R", "_", "A", "P", "P", "R", "O", "X">>)
  @@ ("SEFLG_MOSEPH" :> <<"S", "E", "F", "L", "G", "_", "M", "O", "S", "E", "P", "H">>)
  @@ ("SEFLG_NOABERR" :> <<"S", "E", "F", "L", "G", "_", "N", "O", "A", "B", "E", "R", "R">>)
  @@ ("SEFLG_NOGDEFL" :> <<"S", "E", "F", "L", "G", "_", "N", "O", "G", "D", "E", "F", "L">>)
  @@ ("SEFLG_NONUT" :> <<"S", "E", "F", "L", "G", "_", "N", "O", "N", "U", "T">>)
  @@ ("SEFLG_ORBEL_AA" :> <<"S", "E", "F", "L", "G", "_", "O", "R", "B", "E", "L", "_", "A", "A">>)

Chars3 ==
  ("SEFLG_RADIANS" :> <<"S", "E", "F", "L", "G", "_", "R", "A", "D", "I", "A", "N", "S">>)
  @@ ("SEFLG_SIDEREAL" :> <<"S", "E", "F", "L", "G", "_", "S", "I", "D", "E", "R", "E", "A", "L">>)
  @@ ("SEFLG_SPEED" :> <<"S", "E", "F", "L", "G", "_", "S", "P", "E", "E", "D">>)
  @@ ("SEFLG_SPEED3" :> <<"S", "E", "F", "L", "G", "_", "S", "P", "E", "E", "D", "3">>)
  @@ ("SEFLG_SWIEPH" :> <<"S", "E", "F", "L", "G", "_", "S", "W", "I", "E", "P", "H">>)
  @@ ("SEFLG_TEST_PLMOON" :> <<"S", "E", "F", "L", "G", "_", "T", "E", "S", "T", "_", "P", "L", "M", "O", "O", "N">>)
  @@ ("SEFLG_TOPOCTR" :> <<"S", "E", "F", "L", "G", "_", "T", "O", "P", "O", "C", "T", "R">>)
  @@ ("SEFLG_TROPICAL" :> <<"S", "E", "F", "L", "G", "_", "T", "R", "O", "P", "I", "C", "A", "L">>)
  @@ ("SEFLG_TRUEPOS" :> <<"S", "E", "F", "L", "G", "_", "T", "R", "U", "E", "P", "O", "S">>)
  @@ ("SEFLG_XYZ" :> <<"S", "E", "F", "L", "G", "_", "X", "Y", "Z">>)
  @@ ("SEMOD_" :> <<"S", "E", "M", "O", "D", "_">>)
  @@ ("SEMOD_BIAS_DEFAULT" :> <<"S", "E", "M", "O", "D", "_", "B", "I", "A", "S", "_", "D", "E", "F", "A", "U", "L", "T">>)
  @@ ("SEMOD_BIAS_IAU2000" :> <<"S", "E", "M", "O", "D", "_", "B", "I", "A", "S", "_", "I", "A", "U", "2", "0", "0", "0">>)
  @@ ("SEMOD_BIAS_IAU2006" :> <<"S", "E", "M", "O", "D", "_", "B", "I", "A", "S", "_", "I", "A", "U", "2", "0", "0", "6">>)
  @@ ("SEMOD_BIAS_NONE" :> <<"S", "E", "M", "O", "D", "_", "B", "I", "A", "S", "_", "N", "O", "N", "E">>)
  @@ ("SEMOD_DELTAT_DEFAULT" :> <<"S", "E", "M", "O", "D", "_", "D", "E", "L", "T", "A", "T", "_", "D", "E", "F", "A", "U", "L", "T">>)
  @@ ("SEMOD_DELTAT_ESPENAK_MEEUS_2006" :> <<"S", "E", "M", "O", "D", "_", "D", "E", "L", "T", "A", "T", "_", "E", "S", "P", "E", "N", "A", "K", "_", "M", "E", "E", "U", "S", "_", "2", "0", "0", "6">>)
  @@ ("SEMOD_DELTAT_STEPHENSON_1997" :> <<"S", "E", "M", "O", "D", "_", "D", "E", "L", "T", "A", "T", "_", "S", "T", "E", "P", "H", "E", "N", "S", "O", "N", "_", "1", "9", "9", "7">>)
  @@ ("SEMOD_DELTAT_STEPHENSON_ETC_2016" :> <<"S", "E", "M", "O", "D", "_", "D", "E", "L", "T", "A", "T", "_", "S", "T", "E", "P", "H", "E", "N", "S", "O", "N", "_", "E", "T", "C", "_", "2", "0", "1", "6">>)
  @@ ("SEMOD_DELTAT_STEPHENSON_MORRISON_1984" :> <<"S", "E", "M", "O", "D", "_", "D", "E", "L", "T", "A", "T", "_", "S", "T", "E", "P", "H", "E", "N", "S", "O", "N", "_", "M", "O", "R", "R", "I", "S", "O", "N", "_", "1", "9", "8", "4">>)
  @@ ("SEMOD_DELTAT_STEPHENSON_MORRISON_2004" :> <<"S", "E", "M", "O", "D", "_", "D", "E", "L", "T", "A", "T", "_", "S", "T", "E", "P", "H", "E", "N", "S", "O", "N", "_", "M", "O", "R", "R", "I", "S", "O", "N", "_", "2", "0", "0", "4">>)
  @@ ("SEMOD_JPLHORA_1" :> <<"S", "E", "M", "O", "D", "_", "J", "P", "L", "H", "O", "R", "A", "_", "1">>)
  @@ ("SEMOD_JPLHORA_2" :> <<"S", "E", "M", "O", "D", "_", "J", "P", "L", "H", "O", "R", "A", "_", "2">>)
  @@ ("SEMOD_JPLHORA_3" :> <<"S", "E", "M", "O", "D", "_", "J", "P", "L", "H", "O", "R", "A", "_", "3">>)
  @@ ("SEMOD_JPLHORA_DEFAULT" :> <<"S", "E", "M", "O", "D", "_", "J", "P", "L", "H", "O", "R", "A", "_", "D", "E", "F", "A", "U", "L", "T">>)
  @@ ("SEMOD_JPLHOR_DEFAULT" :> <<"S", "E", "M", "O", "D", "_", "J", "P", "L", "H", "O", "R", "_", "D", "E", "F", "A", "U", "L", "T">>)
  @@ ("SEMOD_JPLHOR_LONG_AGREEMENT" :> <<"S", "E", "M", "O", "D", "_", "J", "P", "L", "H", "O", "R", "_", "L", "O", "N", "G", "_", "A", "G", "R", "E", "E", "M", "E", "N", "T">>)
  @@ ("SEMOD_NBIAS" :> <<"S", "E", "M", "O", "D", "_", "N", "B", "I", "A", "S">>)
  @@ ("SEMOD_NDELTAT" :> <<"S", "E", "M", "O", "D", "_", "N", "D", "E", "L", "T", "A", "T">>)
  @@ ("SEMOD_NJPLHOR" :> <<"S", "E", "M", "O", "D", "_", "N", "J", "P", "L", "H", "O", "R">>)
  @@ ("SEMOD_NJPLHORA" :> <<"S", "E", "M", "O", "D", "_", "N", "J", "P", "L", "H", "O", "R", "A">>)
  @@ ("SEMOD_NNUT" :> <<"S", "E", "M", "O", "D", "_", "N", "N", "U", "T">>)
  @@ ("SEMOD_NPREC" :> <<"S", "E", "M", "O", "D", "_", "N", "P", "R", "E", "C">>)
  @@ ("SEMOD_NSIDT" :> <<"S", "E", "M", "O", "D", "_", "N", "S", "I", "D", "T">>)
  @@ ("SEMOD_NUT_DEFAULT" :> <<"S", "E", "M", "O", "D", "_", "N", "U", "T", "_", "D", "E", "F", "A", "U", "L", "T">>)
  @@ ("SEMOD_NUT_IAU_1980" :> <<"S", "E", "M", "O", "D", "_", "N", "U", "T", "_", "I", "A", "U", "_", "1", "9", "8", "0">>)
  @@ ("SEMOD_NUT_IAU_2000A" :> <<"S", "E", "M", "O", "D", "_", "N", "U", "T", "_", "I", "A", "U", "_", "2", "0", "0", "0", "A">>)
  @@ ("SEMOD_NUT_IAU_2000B" :> <<"S", "E", "M", "O", "D", "_", "N", "U", "T", "_", "I", "A", "U", "_", "2", "0", "0", "0", "B">>)
  @@ ("SEMOD_NUT_IAU_CORR_1987" :> <<"S", "E", "M", "O", "D", "_", "N", "U", "T", "_", "I", "A", "U", "_", "C", "O", "R", "R", "_", "1", "9", "8", "7">>)
  @@ ("SEMOD_NUT_WOOLARD" :> <<"S", "E", "M", "O", "D", "_", "N", "U", "T", "_", "W", "O", "O", "L", "A", "R", "D">>)
  @@ ("SEMOD_PREC_BRETAGNON_2003" :> <<"S", "E", "M", "O", "D", "_", "P", "R", "E", "C", "_", "B", "R", "E", "T", "A", "G", "N", "O", "N", "_", "2", "0", "0", "3">>)
  @@ ("SEMOD_PREC_DEFAULT" :> <<"S", "E", "M", "O", "D", "_", "P", "R", "E", "C", "_", "D", "E", "F", "A", "U", "L", "T">>)
  @@ ("SEMOD_PREC_DEFAULT_SHORT" :> <<"S", "E", "M", "O", "D", "_", "P", "R", "E", "C", "_", "D", "E", "F", "A", "U", "L", "T", "_", "S", "H", "O", "R", "T">>)
  @@ ("SEMOD_PREC_IAU_1976" :> <<"S", "E", "M", "O", "D", "_", "P", "R", "E", "C", "_", "I", "A", "U", "_", "1", "9", "7", "6">>)
  @@ ("SEMOD_PREC_IAU_2000" :> <<"S", "E", "M", "O", "D", "_", "P", "R", "E", "C", "_", "I", "A", "U", "_", "2", "0", "0", "0">>)
  @@ ("SEMOD_PREC_IAU_2006" :> <<"S", "E", "M", "O", "D", "_", "P", "R", "E", "C", "_", "I", "A", "U", "_", "2", "0", "0", "6">>)
  @@ ("SEMOD_PREC_LASKAR_1986" :> <<"S", "E", "M", "O", "D", "_", "P", "R", "E", "C", "_", "L", "A", "S", "K", "A", "R", "_", "1", "9", "8", "6">>)
  @@ ("SEMOD_PREC_NEWCOMB" :> <<"S", "E", "M", "O", "D", "_", "P", "R", "E", "C", "_", "N", "E", "W", "C", "O", "M", "B">>)
  @@ ("SEMOD_PREC_OWEN_1990" :> <<"S", "E", "M", "O", "D", "_", "P", "R", "E", "C", "_", "O", "W", "E", "N", "_", "1", "9", "9", "0">>)
  @@ ("SEMOD_PREC_SIMON_1994" :> <<"S", "E", "M", "O", "D", "_", "P", "R", "E", "C", "_", "S", "I", "M", "O", "N", "_", "1", "9", "9", "4">>)
  @@ ("SEMOD_PREC_VONDRAK_2011" :> <<"S", "E", "M", "O", "D", "_", "P", "R", "E", "C", "_", "V", "O", "N", "D", "R", "A", "K", "_", "2", "0", "1", "1">>)
  @@ ("SEMOD_PREC_WILLIAMS_1994" :> <<"S", "E", "M", "O", "D", "_", "P", "R", "E", "C", "_", "W", "I", "L", "L", "I", "A", "M", "S", "_", "1", "9", "9", "4">>)
  @@ ("SEMOD_PREC_WILL_EPS_LASK" :> <<"S", "E", "M", "O", "D", "_", "P", "R", "E", "C", "_", "W", "I", "L", "L", "_", "E", "P", "S", "_", "L", "A", "S", "K">>)
  @@ ("SEMOD_SIDT_DEFAULT" :> <<"S", "E", "M", "O", "D", "_", "S", "I", "D", "T", "_", "D", "E", "F", "A", "U", "L", "T">>)
  @@ ("SEMOD_SIDT_IAU_1976" :> <<"S", "E", "M", "O", "D", "_", "S", "I", "D", "T", "_", "I", "A", "U", "_", "1", "9", "7", "6">>)
  @@ ("SEMOD_SIDT_IAU_2006" :> <<"S", "E", "M", "O", "D", "_", "S", "I", "D", "T", "_", "I", "A", "U", "_", "2", "0", "0", "6">>)
  @@ ("SEMOD_SIDT_IERS_CONV_2010" :> <<"S", "E", "M", "O", "D", "_", "S", "I", "D", "T", "_", "I", "E", "R", "S", "_", "C", "O", "N", "V", "_", "2", "0", "1", "0">>)
  @@ ("SEMOD_SIDT_LONGTERM" :> <<"S", "E", "M", "O", "D", "_", "S", "I", "D", "T", "_", "L", "O", "N", "G", "T", "E", "R", "M">>)
  @@ ("SE_" :> <<"S", "E", "_">>)
  @@ ("SE_ACRONYCHAL" :> <<"S", "E", "_", "A", "C", "R", "O", "N", "Y", "C", "H", "A", "L">>)
  @@ ("SE_ACRONYCHAL_RISING" :> <<"S", "E", "_", "A", "C", "R", "O", "N", "Y", "C", "H", "A", "L", "_", "R", "I", "S", "I", "N", "G">>)
  @@ ("SE_ACRONYCHAL_SETTING" :> <<"S", "E", "_", "A", "C", "R", "O", "N", "Y", "C", "H", "A", "L", "_", "S", "E", "T", "T", "I", "N", "G">>)
  @@ ("SE_ADMETOS" :> <<"S", "E", "_", "A", "D", "M", "E", "T", "O", "S">>)
  @@ ("SE_APOLLON" :> <<"S", "E", "_", "A", "P", "O", "L", "L", "O", "N">>)
  @@ ("SE_APP_TO_TRUE" :> <<"S", "E", "_", "A", "P", "P", "_", "T", "O", "_", "T", "R", "U", "E">>)
  @@ ("SE_ARMC" :> <<"S", "E", "_", "A", "R", "M", "C">>)
  @@ ("SE_ASC" :> <<"S", "E", "_", "A", "S", "C">>)
  @@ ("SE_ASCMC" :> <<"S", "E", "_", "A", "S", "C", "M", "C">>)
  @@ ("SE_AST_OFFSET" :> <<"S", "E", "_", "A", "S", "T", "_", "O", "F", "F", "S", "E", "T">>)
  @@ ("SE_AUNIT_" :> <<"S", "E", "_", "A", "U", "N", "I", "T", "_">>)
  @@ ("SE_BIT_" :> <<"S", "E", "_", "B", "I", "T", "_">>)
  @@ ("SE_BIT_ASTRO_TWILIGHT" :> <<"S", "E", "_", "B", "I", "T", "_", "A", "S", "T", "R", "O", "_", "T", "W", "I", "L", "I", "G", "H", "T">>)
  @@ ("SE_BIT_CIVIL_TWILIGHT" :> <<"S", "E", "_", "B", "I", "T", "_", "C", "I", "V", "I", "L", "_", "T", "W", "I", "L", "I", "G", "H", "T">>)
  @@ ("SE_BIT_DISC_BOTTOM" :> <<"S", "E", "_", "B", "I", "T", "_", "D", "I", "S", "C", "_", "B", "O", "T", "T", "O", "M">>)
  @@ ("SE_BIT_DISC_CENTER" :> <<"S", "E", "_", "B", "I", "T", "_", "D", "I", "S", "C", "_", "C", "E", "N", "T", "E", "R">>)
  @@ ("SE_BIT_FIXED_DISC_SIZE" :> <<"S", "E", "_", "B", "I", "T", "_", "F", "I", "X", "E", "D", "_", "D", "I", "S", "C", "_", "S", "I", "Z", "E">>)
  @@ ("SE_BIT_FORCE_SLOW_METHOD" :> <<"S", "E", "_", "B", "I", "T", "_", "F", "O", "R", "C", "E", "_", "S", "L", "O", "W", "_", "M", "E", "T", "H", "O", "D">>)
  @@ ("SE_BIT_GEOCTR_NO_ECL_LAT" :> <<"S", "E", "_", "B", "I", "T", "_", "G", "E", "O", "C", "T", "R", "_", "N", "O", "_", "E", "C", "L", "_", "L", "A", "T">>)
  @@ ("SE_BIT_HINDU_RISING" :> <<"S", "E", "_", "B", "I", "T", "_", "H", "I", "N", "D", "U", "_", "R", "I", "S", "I", "N", "G">>)
  @@ ("SE_BIT_NAUTIC_TWILIGHT" :> <<"S", "E", "_", "B", "I", "T", "_", "N", "A", "U", "T", "I", "C", "_", "T", "W", "I", "L", "I", "G", "H", "T">>)

Chars4 ==
  ("SE_BIT_NO_REFRACTION" :> <<"S", "E", "_", "B", "I", "T", "_", "N", "O", "_", "R", "E", "F", "R", "A", "C", "T", "I", "O", "N">>)
  @@ ("SE_CALC_" :> <<"S", "E", "_", "C", "A", "L", "C", "_">>)
  @@ ("SE_CALC_ITRANSIT" :> <<"S", "E", "_", "C", "A", "L", "C", "_", "I", "T", "R", "A", "N", "S", "I", "T">>)
  @@ ("SE_CALC_MTRANSIT" :> <<"S", "E", "_", "C", "A", "L", "C", "_", "M", "T", "R", "A", "N", "S", "I", "T">>)
  @@ ("SE_CALC_RISE" :> <<"S", "E", "_", "C", "A", "L", "C", "_", "R", "I", "S", "E">>)
  @@ ("SE_CALC_SET" :> <<"S", "E", "_", "C", "A", "L", "C", "_", "S", "E", "T">>)
  @@ ("SE_CERES" :> <<"S", "E", "_", "C", "E", "R", "E", "S">>)
  @@ ("SE_CHIRON" :> <<"S", "E", "_", "C", "H", "I", "R", "O", "N">>)
  @@ ("SE_COASC1" :> <<"S", "E", "_", "C", "O", "A", "S", "C", "1">>)
  @@ ("SE_COASC2" :> <<"S", "E", "_", "C", "O", "A", "S", "C", "2">>)
  @@ ("SE_COMET_OFFSET" :> <<"S", "E", "_", "C", "O", "M", "E", "T", "_", "O", "F", "F", "S", "E", "T">>)
  @@ ("SE_COSMICAL" :> <<"S", "E", "_", "C", "O", "S", "M", "I", "C", "A", "L">>)
  @@ ("SE_COSMICAL_SETTING" :> <<"S", "E", "_", "C", "O", "S", "M", "I", "C", "A", "L", "_", "S", "E", "T", "T", "I", "N", "G">>)
  @@ ("SE_CUPIDO" :> <<"S", "E", "_", "C", "U", "P", "I", "D", "O">>)
  @@ ("SE_DELTAT_AUTOMATIC" :> <<"S", "E", "_", "D", "E", "L", "T", "A", "T", "_", "A", "U", "T", "O", "M", "A", "T", "I", "C">>)
  @@ ("SE_DE_NUMBER" :> <<"S", "E", "_", "D", "E", "_", "N", "U", "M", "B", "E", "R">>)
  @@ ("SE_EARTH" :> <<"S", "E", "_", "E", "A", "R", "T", "H">>)
  @@ ("SE_ECL2HOR" :> <<"S", "E", "_", "E", "C", "L", "2", "H", "O", "R">>)
  @@ ("SE_ECL_" :> <<"S", "E", "_", "E", "C", "L", "_">>)
  @@ ("SE_ECL_1ST_VISIBLE" :> <<"S", "E", "_", "E", "C", "L", "_", "1", "S", "T", "_", "V", "I", "S", "I", "B", "L", "E">>)
  @@ ("SE_ECL_2ND_VISIBLE" :> <<"S", "E", "_", "E", "C", "L", "_", "2", "N", "D", "_", "V", "I", "S", "I", "B", "L", "E">>)
  @@ ("SE_ECL_3RD_VISIBLE" :> <<"S", "E", "_", "E", "C", "L", "_", "3", "R", "D", "_", "V", "I", "S", "I", "B", "L", "E">>)
  @@ ("SE_ECL_4TH_VISIBLE" :> <<"S", "E", "_", "E", "C", "L", "_", "4", "T", "H", "_", "V", "I", "S", "I", "B", "L", "E">>)
  @@ ("SE_ECL_ALLTYPES_LUNAR" :> <<"S", "E", "_", "E", "C", "L", "_", "A", "L", "L", "T", "Y", "P", "E", "S", "_", "L", "U", "N", "A", "R">>)
  @@ ("SE_ECL_ALLTYPES_SOLAR" :> <<"S", "E", "_", "E", "C", "L", "_", "A", "L", "L", "T", "Y", "P", "E", "S", "_", "S", "O", "L", "A", "R">>)
  @@ ("SE_ECL_ANNULAR" :> <<"S", "E", "_", "E", "C", "L", "_", "A", "N", "N", "U", "L", "A", "R">>)
  @@ ("SE_ECL_ANNULAR_TOTAL" :> <<"S", "E", "_", "E", "C", "L", "_", "A", "N", "N", "U", "L", "A", "R", "_", "T", "O", "T", "A", "L">>)
  @@ ("SE_ECL_CENTRAL" :> <<"S", "E", "_", "E", "C", "L", "_", "C", "E", "N", "T", "R", "A", "L">>)
  @@ ("SE_ECL_HYBRID" :> <<"S", "E", "_", "E", "C", "L", "_", "H", "Y", "B", "R", "I", "D">>)
  @@ ("SE_ECL_MAX_VISIBLE" :> <<"S", "E", "_", "E", "C", "L", "_", "M", "A", "X", "_", "V", "I", "S", "I", "B", "L", "E">>)
  @@ ("SE_ECL_NONCENTRAL" :> <<"S", "E", "_", "E", "C", "L", "_", "N", "O", "N", "C", "E", "N", "T", "R", "A", "L">>)
  @@ ("SE_ECL_NUT" :> <<"S", "E", "_", "E", "C", "L", "_", "N", "U", "T">>)
  @@ ("SE_ECL_OCC_BEG_DAYLIGHT" :> <<"S", "E", "_", "E", "C", "L", "_", "O", "C", "C", "_", "B", "E", "G", "_", "D", "A", "Y", "L", "I", "G", "H", "T">>)
  @@ ("SE_ECL_OCC_END_DAYLIGHT" :> <<"S", "E", "_", "E", "C", "L", "_", "O", "C", "C", "_", "E", "N", "D", "_", "D", "A", "Y", "L", "I", "G", "H", "T">>)
  @@ ("SE_ECL_ONE_TRY" :> <<"S", "E", "_", "E", "C", "L", "_", "O", "N", "E", "_", "T", "R", "Y">>)
  @@ ("SE_ECL_PARTBEG_VISIBLE" :> <<"S", "E", "_", "E", "C", "L", "_", "P", "A", "R", "T", "B", "E", "G", "_", "V", "I", "S", "I", "B", "L", "E">>)
  @@ ("SE_ECL_PARTEND_VISIBLE" :> <<"S", "E", "_", "E", "C", "L", "_", "P", "A", "R", "T", "E", "N", "D", "_", "V", "I", "S", "I", "B", "L", "E">>)
  @@ ("SE_ECL_PARTIAL" :> <<"S", "E", "_", "E", "C", "L", "_", "P", "A", "R", "T", "I", "A", "L">>)
  @@ ("SE_ECL_PENUMBBEG_VISIBLE" :> <<"S", "E", "_", "E", "C", "L", "_", "P", "E", "N", "U", "M", "B", "B", "E", "G", "_", "V", "I", "S", "I", "B", "L", "E">>)
  @@ ("SE_ECL_PENUMBEND_VISIBLE" :> <<"S", "E", "_", "E", "C", "L", "_", "P", "E", "N", "U", "M", "B", "E", "N", "D", "_", "V", "I", "S", "I", "B", "L", "E">>)
  @@ ("SE_ECL_PENUMBRAL" :> <<"S", "E", "_", "E", "C", "L", "_", "P", "E", "N", "U", "M", "B", "R", "A", "L">>)
  @@ ("SE_ECL_TOTAL" :> <<"S", "E", "_", "E", "C", "L", "_", "T", "O", "T", "A", "L">>)
  @@ ("SE_ECL_TOTBEG_VISIBLE" :> <<"S", "E", "_", "E", "C", "L", "_", "T", "O", "T", "B", "E", "G", "_", "V", "I", "S", "I", "B", "L", "E">>)
  @@ ("SE_ECL_TOTEND_VISIBLE" :> <<"S", "E", "_", "E", "C", "L", "_", "T", "O", "T", "E", "N", "D", "_", "V", "I", "S", "I", "B", "L", "E">>)
  @@ ("SE_ECL_VISIBLE" :> <<"S", "E", "_", "E", "C", "L", "_", "V", "I", "S", "I", "B", "L", "E">>)
  @@ ("SE_EQU2HOR" :> <<"S", "E", "_", "E", "Q", "U", "2", "H", "O", "R">>)
  @@ ("SE_EQUASC" :> <<"S", "E", "_", "E", "Q", "U", "A", "S", "C">>)
  @@ ("SE_EVENING_" :> <<"S", "E", "_", "E", "V", "E", "N", "I", "N", "G", "_">>)
  @@ ("SE_EVENING_FIRST" :> <<"S", "E", "_", "E", "V", "E", "N", "I", "N", "G", "_", "F", "I", "R", "S", "T">>)
  @@ ("SE_EVENING_LAST" :> <<"S", "E", "_", "E", "V", "E", "N", "I", "N", "G", "_", "L", "A", "S", "T">>)
  @@ ("SE_FICT_MAX" :> <<"S", "E", "_", "F", "I", "C", "T", "_", "M", "A", "X">>)
  @@ ("SE_FICT_OFFSET" :> <<"S", "E", "_", "F", "I", "C", "T", "_", "O", "F", "F", "S", "E", "T">>)
  @@ ("SE_FICT_OFFSET_1" :> <<"S", "E", "_", "F", "I", "C", "T", "_", "O", "F", "F", "S", "E", "T", "_", "1">>)
  @@ ("SE_FIXSTAR" :> <<"S", "E", "_", "F", "I", "X", "S", "T", "A", "R">>)
  @@ ("SE_FIXSTARS" :> <<"S", "E", "_", "F", "I", "X", "S", "T", "A", "R", "S">>)
  @@ ("SE_GREG_CAL" :> <<"S", "E", "_", "G", "R", "E", "G", "_", "C", "A", "L">>)
  @@ ("SE_HADES" :> <<"S", "E", "_", "H", "A", "D", "E", "S">>)
  @@ ("SE_HARRINGTON" :> <<"S", "E", "_", "H", "A", "R", "R", "I", "N", "G", "T", "O", "N">>)
  @@ ("SE_HELFLAG_" :> <<"S", "E", "_", "H", "E", "L", "F", "L", "A", "G", "_">>)
  @@ ("SE_HELFLAG_AV" :> <<"S", "E", "_", "H", "E", "L", "F", "L", "A", "G", "_", "A", "V">>)
  @@ ("SE_HELFLAG_AVKIND" :> <<"S", "E", "_", "H", "E", "L", "F", "L", "A", "G", "_", "A", "V", "K", "I", "N", "D">>)
  @@ ("SE_HELFLAG_AVKIND_MIN7" :> <<"S", "E", "_", "H", "E", "L", "F", "L", "A", "G", "_", "A", "V", "K", "I", "N", "D", "_", "M", "I", "N", "7">>)
  @@ ("SE_HELFLAG_AVKIND_MIN9" :> <<"S", "E", "_", "H", "E", "L", "F", "L", "A", "G", "_", "A", "V", "K", "I", "N", "D", "_", "M", "I", "N", "9">>)
  @@ ("SE_HELFLAG_AVKIND_PTO" :> <<"S", "E", "_", "H", "E", "L", "F", "L", "A", "G", "_", "A", "V", "K", "I", "N", "D", "_", "P", "T", "O">>)
  @@ ("SE_HELFLAG_AVKIND_VR" :> <<"S", "E", "_", "H", "E", "L", "F", "L", "A", "G", "_", "A", "V", "K", "I", "N", "D", "_", "V", "R">>)
  @@ ("SE_HELFLAG_HIGH_PRECISION" :> <<"S", "E", "_", "H", "E", "L", "F", "L", "A", "G", "_", "H", "I", "G", "H", "_", "P", "R", "E", "C", "I", "S", "I", "O", "N">>)
  @@ ("SE_HELFLAG_LONG_SEARCH" :> <<"S", "E", "_", "H", "E", "L", "F", "L", "A", "G", "_", "L", "O", "N", "G", "_", "S", "E", "A", "R", "C", "H">>)
  @@ ("SE_HELFLAG_NO_DETAILS" :> <<"S", "E", "_", "H", "E", "L", "F", "L", "A", "G", "_", "N", "O", "_", "D", "E", "T", "A", "I", "L", "S">>)
  @@ ("SE_HELFLAG_OPTICAL_PARAMS" :> <<"S", "E", "_", "H", "E", "L", "F", "L", "A", "G", "_", "O", "P", "T", "I", "C", "A", "L", "_", "P", "A", "R", "A", "M", "S">>)
  @@ ("SE_HELFLAG_SEARCH_1_PERIOD" :> <<"S", "E", "_", "H", "E", "L", "F", "L", "A", "G", "_", "S", "E", "A", "R", "C", "H", "_", "1", "_", "P", "E", "R", "I", "O", "D">>)
  @@ ("SE_HELFLAG_VISLIM_DARK" :> <<"S", "E", "_", "H", "E", "L", "F", "L", "A", "G", "_", "V", "I", "S", "L", "I", "M", "_", "D", "A", "R", "K">>)
  @@ ("SE_HELFLAG_VISLIM_NOMOON" :> <<"S", "E", "_", "H", "E", "L", "F", "L", "A", "G", "_", "V", "I", "S", "L", "I", "M", "_", "N", "O", "M", "O", "O", "N">>)
  @@ ("SE_HELFLAG_VISLIM_PHOTOPIC" :> <<"S", "E", "_", "H", "E", "L", "F", "L", "A", "G", "_", "V", "I", "S", "L", "I", "M", "_", "P", "H", "O", "T", "O", "P", "I", "C">>)
  @@ ("SE_HELFLAG_VISLIM_SCOTOPIC" :> <<"S", "E", "_", "H", "E", "L", "F", "L", "A", "G", "_", "V", "I", "S", "L", "I", "M", "_", "S", "C", "O", "T", "O", "P", "I", "C">>)
  @@ ("SE_HELIACAL" :> <<"S", "E", "_", "H", "E", "L", "I", "A", "C", "A", "L">>)
  @@ ("SE_HELIACAL_AVKIND" :> <<"S", "E", "_", "H", "E", "L", "I", "A", "C", "A", "L", "_", "A", "V", "K", "I", "N", "D">>)
  @@ ("SE_HELIACAL_AVKIND_MIN7" :> <<"S", "E", "_", "H", "E", "L", "I", "A", "C", "A", "L", "_", "A", "V", "K", "I", "N", "D", "_", "M", "I", "N", "7">>)
  @@ ("SE_HELIACAL_AVKIND_MIN9" :> <<"S", "E", "_", "H", "E", "L", "I", "A", "C", "A", "L", "_", "A", "V", "K", "I", "N", "D", "_", "M", "I", "N", "9">>)
  @@ ("SE_HELIACAL_AVKIND_PTO" :> <<"S", "E", "_", "H", "E", "L", "I", "A", "C", "A", "L", "_", "A", "V", "K", "I", "N", "D", "_", "P", "T", "O">>)
  @@ ("SE_HELIACAL_AVKIND_VR" :> <<"S", "E", "_", "H", "E", "L", "I", "A", "C", "A", "L", "_", "A", "V", "K", "I", "N", "D", "_", "V", "R">>)

Chars5 ==
  ("SE_HELIACAL_HIGH_PRECISION" :> <<"S", "E", "_", "H", "E", "L", "I", "A", "C", "A", "L", "_", "H", "I", "G", "H", "_", "P", "R", "E", "C", "I", "S", "I", "O", "N">>)
  @@ ("SE_HELIACAL_LONG_SEARCH" :> <<"S", "E", "_", "H", "E", "L", "I", "A", "C", "A", "L", "_", "L", "O", "N", "G", "_", "S", "E", "A", "R", "C", "H">>)
  @@ ("SE_HELIACAL_NO_DETAILS" :> <<"S", "E", "_", "H", "E", "L", "I", "A", "C", "A", "L", "_", "N", "O", "_", "D", "E", "T", "A", "I", "L", "S">>)
  @@ ("SE_HELIACAL_OPTICAL_PARAMS" :> <<"S", "E", "_", "H", "E", "L", "I", "A", "C", "A", "L", "_", "O", "P", "T", "I", "C", "A", "L", "_", "P", "A", "R", "A", "M", "S">>)
  @@ ("SE_HELIACAL_RISING" :> <<"S", "E", "_", "H", "E", "L", "I", "A", "C", "A", "L", "_", "R", "I", "S", "I", "N", "G">>)
  @@ ("SE_HELIACAL_SEARCH_1_PERIOD" :> <<"S", "E", "_", "H", "E", "L", "I", "A", "C", "A", "L", "_", "S", "E", "A", "R", "C", "H", "_", "1", "_", "P", "E", "R", "I", "O", "D">>)
  @@ ("SE_HELIACAL_SETTING" :> <<"S", "E", "_", "H", "E", "L", "I", "A", "C", "A", "L", "_", "S", "E", "T", "T", "I", "N", "G">>)
  @@ ("SE_HELIACAL_VISLIM_DARK" :> <<"S", "E", "_", "H", "E", "L", "I", "A", "C", "A", "L", "_", "V", "I", "S", "L", "I", "M", "_", "D", "A", "R", "K">>)
  @@ ("SE_HELIACAL_VISLIM_NOMOON" :> <<"S", "E", "_", "H", "E", "L", "I", "A", "C", "A", "L", "_", "V", "I", "S", "L", "I", "M", "_", "N", "O", "M", "O", "O", "N">>)
  @@ ("SE_HELIACAL_VISLIM_PHOTOPIC" :> <<"S", "E", "_", "H", "E", "L", "I", "A", "C", "A", "L", "_", "V", "I", "S", "L", "I", "M", "_", "P", "H", "O", "T", "O", "P", "I", "C">>)
  @@ ("SE_HOR2ECL" :> <<"S", "E", "_", "H", "O", "R", "2", "E", "C", "L">>)
  @@ ("SE_HOR2EQU" :> <<"S", "E", "_", "H", "O", "R", "2", "E", "Q", "U">>)
  @@ ("SE_INTP_" :> <<"S", "E", "_", "I", "N", "T", "P", "_">>)
  @@ ("SE_INTP_APOG" :> <<"S", "E", "_", "I", "N", "T", "P", "_", "A", "P", "O", "G">>)
  @@ ("SE_INTP_PERG" :> <<"S", "E", "_", "I", "N", "T", "P", "_", "P", "E", "R", "G">>)
  @@ ("SE_ISIS" :> <<"S", "E", "_", "I", "S", "I", "S">>)
  @@ ("SE_JUL_CAL" :> <<"S", "E", "_", "J", "U", "L", "_", "C", "A", "L">>)
  @@ ("SE_JUNO" :> <<"S", "E", "_", "J", "U", "N", "O">>)
  @@ ("SE_JUPITER" :> <<"S", "E", "_", "J", "U", "P", "I", "T", "E", "R">>)
  @@ ("SE_KRONOS" :> <<"S", "E", "_", "K", "R", "O", "N", "O", "S">>)
  @@ ("SE_MARS" :> <<"S", "E", "_", "M", "A", "R", "S">>)
  @@ ("SE_MAX_STNAME" :> <<"S", "E", "_", "M", "A", "X", "_", "S", "T", "N", "A", "M", "E">>)
  @@ ("SE_MC" :> <<"S", "E", "_", "M", "C">>)
  @@ ("SE_MC /* house point */" :> <<"S", "E", "_", "M", "C", " ", "/", "*", " ", "h", "o", "u", "s", "e", " ", "p", "o", "i", "n", "t", " ", "*", "/">>)
  @@ ("SE_MC | SE_SUN" :> <<"S", "E", "_", "M", "C", " ", "|", " ", "S", "E", "_", "S", "U", "N">>)
  @@ ("SE_MEAN_APOG" :> <<"S", "E", "_", "M", "E", "A", "N", "_", "A", "P", "O", "G">>)
  @@ ("SE_MEAN_NODE" :> <<"S", "E", "_", "M", "E", "A", "N", "_", "N", "O", "D", "E">>)
  @@ ("SE_MERCURY" :> <<"S", "E", "_", "M", "E", "R", "C", "U", "R", "Y">>)
  @@ ("SE_MIXEDOPIC_FLAG" :> <<"S", "E", "_", "M", "I", "X", "E", "D", "O", "P", "I", "C", "_", "F", "L", "A", "G">>)
  @@ ("SE_MODEL" :> <<"S", "E", "_", "M", "O", "D", "E", "L">>)
  @@ ("SE_MODEL_" :> <<"S", "E", "_", "M", "O", "D", "E", "L", "_">>)
  @@ ("SE_MODEL_BIAS" :> <<"S", "E", "_", "M", "O", "D", "E", "L", "_", "B", "I", "A", "S">>)
  @@ ("SE_MODEL_DELTAT" :> <<"S", "E", "_", "M", "O", "D", "E", "L", "_", "D", "E", "L", "T", "A", "T">>)
  @@ ("SE_MODEL_JPLHORA_MODE" :> <<"S", "E", "_", "M", "O", "D", "E", "L", "_", "J", "P", "L", "H", "O", "R", "A", "_", "M", "O", "D", "E">>)
  @@ ("SE_MODEL_JPLHOR_MODE" :> <<"S", "E", "_", "M", "O", "D", "E", "L", "_", "J", "P", "L", "H", "O", "R", "_", "M", "O", "D", "E">>)
  @@ ("SE_MODEL_NUT" :> <<"S", "E", "_", "M", "O", "D", "E", "L", "_", "N", "U", "T">>)
  @@ ("SE_MODEL_PREC_LONGTERM" :> <<"S", "E", "_", "M", "O", "D", "E", "L", "_", "P", "R", "E", "C", "_", "L", "O", "N", "G", "T", "E", "R", "M">>)
  @@ ("SE_MODEL_PREC_SHORTTERM" :> <<"S", "E", "_", "M", "O", "D", "E", "L", "_", "P", "R", "E", "C", "_", "S", "H", "O", "R", "T", "T", "E", "R", "M">>)
  @@ ("SE_MODEL_SIDT" :> <<"S", "E", "_", "M", "O", "D", "E", "L", "_", "S", "I", "D", "T">>)
  @@ ("SE_MOON" :> <<"S", "E", "_", "M", "O", "O", "N">>)
  @@ ("SE_MORNING_" :> <<"S", "E", "_", "M", "O", "R", "N", "I", "N", "G", "_">>)
  @@ ("SE_MORNING_FIRST" :> <<"S", "E", "_", "M", "O", "R", "N", "I", "N", "G", "_", "F", "I", "R", "S", "T">>)
  @@ ("SE_MORNING_LAST" :> <<"S", "E", "_", "M", "O", "R", "N", "I", "N", "G", "_", "L", "A", "S", "T">>)
  @@ ("SE_NALL_NAT_POINTS" :> <<"S", "E", "_", "N", "A", "L", "L", "_", "N", "A", "T", "_", "P", "O", "I", "N", "T", "S">>)
  @@ ("SE_NASCMC" :> <<"S", "E", "_", "N", "A", "S", "C", "M", "C">>)
  @@ ("SE_NEPTUNE" :> <<"S", "E", "_", "N", "E", "P", "T", "U", "N", "E">>)
  @@ ("SE_NEPTUNE_ADAMS" :> <<"S", "E", "_", "N", "E", "P", "T", "U", "N", "E", "_", "A", "D", "A", "M", "S">>)
  @@ ("SE_NEPTUNE_LEVERRIER" :> <<"S", "E", "_", "N", "E", "P", "T", "U", "N", "E", "_", "L", "E", "V", "E", "R", "R", "I", "E", "R">>)
  @@ ("SE_NFICT_ELEM" :> <<"S", "E", "_", "N", "F", "I", "C", "T", "_", "E", "L", "E", "M">>)
  @@ ("SE_NIBIRU" :> <<"S", "E", "_", "N", "I", "B", "I", "R", "U">>)
  @@ ("SE_NODBIT_" :> <<"S", "E", "_", "N", "O", "D", "B", "I", "T", "_">>)
  @@ ("SE_NODBIT_FOPOINT" :> <<"S", "E", "_", "N", "O", "D", "B", "I", "T", "_", "F", "O", "P", "O", "I", "N", "T">>)
  @@ ("SE_NODBIT_MEAN" :> <<"S", "E", "_", "N", "O", "D", "B", "I", "T", "_", "M", "E", "A", "N">>)
  @@ ("SE_NODBIT_OSCU" :> <<"S", "E", "_", "N", "O", "D", "B", "I", "T", "_", "O", "S", "C", "U">>)
  @@ ("SE_NODBIT_OSCU_BAR" :> <<"S", "E", "_", "N", "O", "D", "B", "I", "T", "_", "O", "S", "C", "U", "_", "B", "A", "R">>)
  @@ ("SE_NPLANETS" :> <<"S", "E", "_", "N", "P", "L", "A", "N", "E", "T", "S">>)
  @@ ("SE_NSIDM_PREDEF" :> <<"S", "E", "_", "N", "S", "I", "D", "M", "_", "P", "R", "E", "D", "E", "F">>)
  @@ ("SE_OSCU_APOG" :> <<"S", "E", "_", "O", "S", "C", "U", "_", "A", "P", "O", "G">>)
  @@ ("SE_PALLAS" :> <<"S", "E", "_", "P", "A", "L", "L", "A", "S">>)
  @@ ("SE_PHOLUS" :> <<"S", "E", "_", "P", "H", "O", "L", "U", "S">>)
  @@ ("SE_PHOTOPIC_FLAG" :> <<"S", "E", "_", "P", "H", "O", "T", "O", "P", "I", "C", "_", "F", "L", "A", "G">>)
  @@ ("SE_PLMOON_OFFSET" :> <<"S", "E", "_", "P", "L", "M", "O", "O", "N", "_", "O", "F", "F", "S", "E", "T">>)
  @@ ("SE_PLUTO" :> <<"S", "E", "_", "P", "L", "U", "T", "O">>)
  @@ ("SE_PLUTO_LOWELL" :> <<"S", "E", "_", "P", "L", "U", "T", "O", "_", "L", "O", "W", "E", "L", "L">>)
  @@ ("SE_PLUTO_PICKERING" :> <<"S", "E", "_", "P", "L", "U", "T", "O", "_", "P", "I", "C", "K", "E", "R", "I", "N", "G">>)
  @@ ("SE_POLASC" :> <<"S", "E", "_", "P", "O", "L", "A", "S", "C">>)
  @@ ("SE_POSEIDON" :> <<"S", "E", "_", "P", "O", "S", "E", "I", "D", "O", "N">>)
  @@ ("SE_PROSERPINA" :> <<"S", "E", "_", "P", "R", "O", "S", "E", "R", "P", "I", "N", "A">>)
  @@ ("SE_SATURN" :> <<"S", "E", "_", "S", "A", "T", "U", "R", "N">>)
  @@ ("SE_SCOTOPIC_FLAG" :> <<"S", "E", "_", "S", "C", "O", "T", "O", "P", "I", "C", "_", "F", "L", "A", "G">>)
  @@ ("SE_SIDBITS" :> <<"S", "E", "_", "S", "I", "D", "B", "I", "T", "S">>)
  @@ ("SE_SIDBITS2" :> <<"S", "E", "_", "S", "I", "D", "B", "I", "T", "S", "2">>)
  @@ ("SE_SIDBIT_" :> <<"S", "E", "_", "S", "I", "D", "B", "I", "T", "_">>)
  @@ ("SE_SIDBIT_ECL_DATE" :> <<"S", "E", "_", "S", "I", "D", "B", "I", "T", "_", "E", "C", "L", "_", "D", "A", "T", "E">>)
  @@ ("SE_SIDBIT_ECL_T0" :> <<"S", "E", "_", "S", "I", "D", "B", "I", "T", "_", "E", "C", "L", "_", "T", "0">>)
  @@ ("SE_SIDBIT_NO_PREC_OFFSET" :> <<"S", "E", "_", "S", "I", "D", "B", "I", "T", "_", "N", "O", "_", "P", "R", "E", "C", "_", "O", "F", "F", "S", "E", "T">>)
  @@ ("SE_SIDBIT_PREC_ORIG" :> <<"S", "E", "_", "S", "I", "D", "B", "I", "T", "_", "P", "R", "E", "C", "_", "O", "R", "I", "G">>)
  @@ ("SE_SIDBIT_SSY_PLANE" :> <<"S", "E", "_", "S", "I", "D", "B", "I", "T", "_", "S", "S", "Y", "_", "P", "L", "A", "N", "E">>)
  @@ ("SE_SIDBIT_USER_UT" :> <<"S", "E", "_", "S", "I", "D", "B", "I", "T", "_", "U", "S", "E", "R", "_", "U", "T">>)
  @@ ("SE_SIDM_" :> <<"S", "E", "_", "S", "I", "D", "M", "_">>)

Chars6 ==
  ("SE_SIDM_ALDEBARAN_15TAU" :> <<"S", "E", "_", "S", "I", "D", "M", "_", "A", "L", "D", "E", "B", "A", "R", "A", "N", "_", "1", "5", "T", "A", "U">>)
  @@ ("SE_SIDM_ARYABHATA" :> <<"S", "E", "_", "S", "I", "D", "M", "_", "A", "R", "Y", "A", "B", "H", "A", "T", "A">>)
  @@ ("SE_SIDM_ARYABHATA_522" :> <<"S", "E", "_", "S", "I", "D", "M", "_", "A", "R", "Y", "A", "B", "H", "A", "T", "A", "_", "5", "2", "2">>)
  @@ ("SE_SIDM_ARYABHATA_MSUN" :> <<"S", "E", "_", "S", "I", "D", "M", "_", "A", "R", "Y", "A", "B", "H", "A", "T", "A", "_", "M", "S", "U", "N">>)
  @@ ("SE_SIDM_B1950" :> <<"S", "E", "_", "S", "I", "D", "M", "_", "B", "1", "9", "5", "0">>)
  @@ ("SE_SIDM_BABYL_BRITTON" :> <<"S", "E", "_", "S", "I", "D", "M", "_", "B", "A", "B", "Y", "L", "_", "B", "R", "I", "T", "T", "O", "N">>)
  @@ ("SE_SIDM_BABYL_ETPSC" :> <<"S", "E", "_", "S", "I", "D", "M", "_", "B", "A", "B", "Y", "L", "_", "E", "T", "P", "S", "C">>)
  @@ ("SE_SIDM_BABYL_HUBER" :> <<"S", "E", "_", "S", "I", "D", "M", "_", "B", "A", "B", "Y", "L", "_", "H", "U", "B", "E", "R">>)
  @@ ("SE_SIDM_BABYL_KUGLER1" :> <<"S", "E", "_", "S", "I", "D", "M", "_", "B", "A", "B", "Y", "L", "_", "K", "U", "G", "L", "E", "R", "1">>)
  @@ ("SE_SIDM_BABYL_KUGLER2" :> <<"S", "E", "_", "S", "I", "D", "M", "_", "B", "A", "B", "Y", "L", "_", "K", "U", "G", "L", "E", "R", "2">>)
  @@ ("SE_SIDM_BABYL_KUGLER3" :> <<"S", "E", "_", "S", "I", "D", "M", "_", "B", "A", "B", "Y", "L", "_", "K", "U", "G", "L", "E", "R", "3">>)
  @@ ("SE_SIDM_DELUCE" :> <<"S", "E", "_", "S", "I", "D", "M", "_", "D", "E", "L", "U", "C", "E">>)
  @@ ("SE_SIDM_DJWHAL_KHUL" :> <<"S", "E", "_", "S", "I", "D", "M", "_", "D", "J", "W", "H", "A", "L", "_", "K", "H", "U", "L">>)
  @@ ("SE_SIDM_FAGAN_BRADLEY" :> <<"S", "E", "_", "S", "I", "D", "M", "_", "F", "A", "G", "A", "N", "_", "B", "R", "A", "D", "L", "E", "Y">>)
  @@ ("SE_SIDM_GALALIGN_MARDYKS" :> <<"S", "E", "_", "S", "I", "D", "M", "_", "G", "A", "L", "A", "L", "I", "G", "N", "_", "M", "A", "R", "D", "Y", "K", "S">>)
  @@ ("SE_SIDM_GALCENT_0SAG" :> <<"S", "E", "_", "S", "I", "D", "M", "_", "G", "A", "L", "C", "E", "N", "T", "_", "0", "S", "A", "G">>)
  @@ ("SE_SIDM_GALCENT_COCHRANE" :> <<"S", "E", "_", "S", "I", "D", "M", "_", "G", "A", "L", "C", "E", "N", "T", "_", "C", "O", "C", "H", "R", "A", "N", "E">>)
  @@ ("SE_SIDM_GALCENT_MULA_WILHELM" :> <<"S", "E", "_", "S", "I", "D", "M", "_", "G", "A", "L", "C", "E", "N", "T", "_", "M", "U", "L", "A", "_", "W", "I", "L", "H", "E", "L", "M">>)
  @@ ("SE_SIDM_GALCENT_RGILBRAND" :> <<"S", "E", "_", "S", "I", "D", "M", "_", "G", "A", "L", "C", "E", "N", "T", "_", "R", "G", "I", "L", "B", "R", "A", "N", "D">>)
  @@ ("SE_SIDM_GALEQU_FIORENZA" :> <<"S", "E", "_", "S", "I", "D", "M", "_", "G", "A", "L", "E", "Q", "U", "_", "F", "I", "O", "R", "E", "N", "Z", "A">>)
  @@ ("SE_SIDM_GALEQU_IAU1958" :> <<"S", "E", "_", "S", "I", "D", "M", "_", "G", "A", "L", "E", "Q", "U", "_", "I", "A", "U", "1", "9", "5", "8">>)
  @@ ("SE_SIDM_GALEQU_MULA" :> <<"S", "E", "_", "S", "I", "D", "M", "_", "G", "A", "L", "E", "Q", "U", "_", "M", "U", "L", "A">>)
  @@ ("SE_SIDM_GALEQU_TRUE" :> <<"S", "E", "_", "S", "I", "D", "M", "_", "G", "A", "L", "E", "Q", "U", "_", "T", "R", "U", "E">>)
  @@ ("SE_SIDM_HIPPARCHOS" :> <<"S", "E", "_", "S", "I", "D", "M", "_", "H", "I", "P", "P", "A", "R", "C", "H", "O", "S">>)
  @@ ("SE_SIDM_J1900" :> <<"S", "E", "_", "S", "I", "D", "M", "_", "J", "1", "9", "0", "0">>)
  @@ ("SE_SIDM_J2000" :> <<"S", "E", "_", "S", "I", "D", "M", "_", "J", "2", "0", "0", "0">>)
  @@ ("SE_SIDM_JN_BHASIN" :> <<"S", "E", "_", "S", "I", "D", "M", "_", "J", "N", "_", "B", "H", "A", "S", "I", "N">>)
  @@ ("SE_SIDM_KRISHNAMURTI" :> <<"S", "E", "_", "S", "I", "D", "M", "_", "K", "R", "I", "S", "H", "N", "A", "M", "U", "R", "T", "I">>)
  @@ ("SE_SIDM_KRISHNAMURTI_VP291" :> <<"S", "E", "_", "S", "I", "D", "M", "_", "K", "R", "I", "S", "H", "N", "A", "M", "U", "R", "T", "I", "_", "V", "P", "2", "9", "1">>)
  @@ ("SE_SIDM_LAHIRI" :> <<"S", "E", "_", "S", "I", "D", "M", "_", "L", "A", "H", "I", "R", "I">>)
  @@ ("SE_SIDM_LAHIRI_1940" :> <<"S", "E", "_", "S", "I", "D", "M", "_", "L", "A", "H", "I", "R", "I", "_", "1", "9", "4", "0">>)
  @@ ("SE_SIDM_LAHIRI_ICRC" :> <<"S", "E", "_", "S", "I", "D", "M", "_", "L", "A", "H", "I", "R", "I", "_", "I", "C", "R", "C">>)
  @@ ("SE_SIDM_LAHIRI_VP285" :> <<"S", "E", "_", "S", "I", "D", "M", "_", "L", "A", "H", "I", "R", "I", "_", "V", "P", "2", "8", "5">>)
  @@ ("SE_SIDM_RAMAN" :> <<"S", "E", "_", "S", "I", "D", "M", "_", "R", "A", "M", "A", "N">>)
  @@ ("SE_SIDM_SASSANIAN" :> <<"S", "E", "_", "S", "I", "D", "M", "_", "S", "A", "S", "S", "A", "N", "I", "A", "N">>)
  @@ ("SE_SIDM_SS_CITRA" :> <<"S", "E", "_", "S", "I", "D", "M", "_", "S", "S", "_", "C", "I", "T", "R", "A">>)
  @@ ("SE_SIDM_SS_REVATI" :> <<"S", "E", "_", "S", "I", "D", "M", "_", "S", "S", "_", "R", "E", "V", "A", "T", "I">>)
  @@ ("SE_SIDM_SURYASIDDHANTA" :> <<"S", "E", "_", "S", "I", "D", "M", "_", "S", "U", "R", "Y", "A", "S", "I", "D", "D", "H", "A", "N", "T", "A">>)
  @@ ("SE_SIDM_SURYASIDDHANTA_MSUN" :> <<"S", "E", "_", "S", "I", "D", "M", "_", "S", "U", "R", "Y", "A", "S", "I", "D", "D", "H", "A", "N", "T", "A", "_", "M", "S", "U", "N">>)
  @@ ("SE_SIDM_TRUE_CITRA" :> <<"S", "E", "_", "S", "I", "D", "M", "_", "T", "R", "U", "E", "_", "C", "I", "T", "R", "A">>)
  @@ ("SE_SIDM_TRUE_MULA" :> <<"S", "E", "_", "S", "I", "D", "M", "_", "T", "R", "U", "E", "_", "M", "U", "L", "A">>)
  @@ ("SE_SIDM_TRUE_PUSHYA" :> <<"S", "E", "_", "S", "I", "D", "M", "_", "T", "R", "U", "E", "_", "P", "U", "S", "H", "Y", "A">>)
  @@ ("SE_SIDM_TRUE_REVATI" :> <<"S", "E", "_", "S", "I", "D", "M", "_", "T", "R", "U", "E", "_", "R", "E", "V", "A", "T", "I">>)
  @@ ("SE_SIDM_TRUE_SHEORAN" :> <<"S", "E", "_", "S", "I", "D", "M", "_", "T", "R", "U", "E", "_", "S", "H", "E", "O", "R", "A", "N">>)
  @@ ("SE_SIDM_USER" :> <<"S", "E", "_", "S", "I", "D", "M", "_", "U", "S", "E", "R">>)
  @@ ("SE_SIDM_USHASHASHI" :> <<"S", "E", "_", "S", "I", "D", "M", "_", "U", "S", "H", "A", "S", "H", "A", "S", "H", "I">>)
  @@ ("SE_SIDM_VALENS_MOON" :> <<"S", "E", "_", "S", "I", "D", "M", "_", "V", "A", "L", "E", "N", "S", "_", "M", "O", "O", "N">>)
  @@ ("SE_SIDM_YUKTESHWAR" :> <<"S", "E", "_", "S", "I", "D", "M", "_", "Y", "U", "K", "T", "E", "S", "H", "W", "A", "R">>)
  @@ ("SE_SPLIT_DEG_" :> <<"S", "E", "_", "S", "P", "L", "I", "T", "_", "D", "E", "G", "_">>)
  @@ ("SE_SPLIT_DEG_KEEP_DEG" :> <<"S", "E", "_", "S", "P", "L", "I", "T", "_", "D", "E", "G", "_", "K", "E", "E", "P", "_", "D", "E", "G">>)
  @@ ("SE_SPLIT_DEG_KEEP_SIGN" :> <<"S", "E", "_", "S", "P", "L", "I", "T", "_", "D", "E", "G", "_", "K", "E", "E", "P", "_", "S", "I", "G", "N">>)
  @@ ("SE_SPLIT_DEG_NAKSHATRA" :> <<"S", "E", "_", "S", "P", "L", "I", "T", "_", "D", "E", "G", "_", "N", "A", "K", "S", "H", "A", "T", "R", "A">>)
  @@ ("SE_SPLIT_DEG_ROUND_DEG" :> <<"S", "E", "_", "S", "P", "L", "I", "T", "_", "D", "E", "G", "_", "R", "O", "U", "N", "D", "_", "D", "E", "G">>)
  @@ ("SE_SPLIT_DEG_ROUND_MIN" :> <<"S", "E", "_", "S", "P", "L", "I", "T", "_", "D", "E", "G", "_", "R", "O", "U", "N", "D", "_", "M", "I", "N">>)
  @@ ("SE_SPLIT_DEG_ROUND_SEC" :> <<"S", "E", "_", "S", "P", "L", "I", "T", "_", "D", "E", "G", "_", "R", "O", "U", "N", "D", "_", "S", "E", "C">>)
  @@ ("SE_SPLIT_DEG_ZODIACAL" :> <<"S", "E", "_", "S", "P", "L", "I", "T", "_", "D", "E", "G", "_", "Z", "O", "D", "I", "A", "C", "A", "L">>)
  @@ ("SE_SUN" :> <<"S", "E", "_", "S", "U", "N">>)
  @@ ("SE_SUN+1" :> <<"S", "E", "_", "S", "U", "N", "+", "1">>)
  @@ ("SE_SUNRISE" :> <<"S", "E", "_", "S", "U", "N", "R", "I", "S", "E">>)
  @@ ("SE_TIDAL_" :> <<"S", "E", "_", "T", "I", "D", "A", "L", "_">>)
  @@ ("SE_TIDAL_26" :> <<"S", "E", "_", "T", "I", "D", "A", "L", "_", "2", "6">>)
  @@ ("SE_TIDAL_AUTOMATIC" :> <<"S", "E", "_", "T", "I", "D", "A", "L", "_", "A", "U", "T", "O", "M", "A", "T", "I", "C">>)
  @@ ("SE_TIDAL_DE200" :> <<"S", "E", "_", "T", "I", "D", "A", "L", "_", "D", "E", "2", "0", "0">>)
  @@ ("SE_TIDAL_DE403" :> <<"S", "E", "_", "T", "I", "D", "A", "L", "_", "D", "E", "4", "0", "3">>)
  @@ ("SE_TIDAL_DE404" :> <<"S", "E", "_", "T", "I", "D", "A", "L", "_", "D", "E", "4", "0", "4">>)
  @@ ("SE_TIDAL_DE405" :> <<"S", "E", "_", "T", "I", "D", "A", "L", "_", "D", "E", "4", "0", "5">>)
  @@ ("SE_TIDAL_DE406" :> <<"S", "E", "_", "T", "I", "D", "A", "L", "_", "D", "E", "4", "0", "6">>)
  @@ ("SE_TIDAL_DE421" :> <<"S", "E", "_", "T", "I", "D", "A", "L", "_", "D", "E", "4", "2", "1">>)
  @@ ("SE_TIDAL_DE422" :> <<"S", "E", "_", "T", "I", "D", "A", "L", "_", "D", "E", "4", "2", "2">>)
  @@ ("SE_TIDAL_DE430" :> <<"S", "E", "_", "T", "I", "D", "A", "L", "_", "D", "E", "4", "3", "0">>)
  @@ ("SE_TIDAL_DE431" :> <<"S", "E", "_", "T", "I", "D", "A", "L", "_", "D", "E", "4", "3", "1">>)
  @@ ("SE_TIDAL_DE441" :> <<"S", "E", "_", "T", "I", "D", "A", "L", "_", "D", "E", "4", "4", "1">>)
  @@ ("SE_TIDAL_DEFAULT" :> <<"S", "E", "_", "T", "I", "D", "A", "L", "_", "D", "E", "F", "A", "U", "L", "T">>)
  @@ ("SE_TIDAL_JPLEPH" :> <<"S", "E", "_", "T", "I", "D", "A", "L", "_", "J", "P", "L", "E", "P", "H">>)
  @@ ("SE_TIDAL_MOSEPH" :> <<"S", "E", "_", "T", "I", "D", "A", "L", "_", "M", "O", "S", "E", "P", "H">>)
  @@ ("SE_TIDAL_STEPHENSON_2016" :> <<"S", "E", "_", "T", "I", "D", "A", "L", "_", "S", "T", "E", "P", "H", "E", "N", "S", "O", "N", "_", "2", "0", "1", "6">>)
  @@ ("SE_TIDAL_SWIEPH" :> <<"S", "E", "_", "T", "I", "D", "A", "L", "_", "S", "W", "I", "E", "P", "H">>)
  @@ ("SE_TRUE_NODE" :> <<"S", "E", "_", "T", "R", "U", "E", "_", "N", "O", "D", "E">>)
  @@ ("SE_TRUE_TO_APP" :> <<"S", "E", "_", "T", "R", "U", "E", "_", "T", "O", "_", "A", "P", "P">>)
  @@ ("SE_URANUS" :> <<"S", "E", "_", "U", "R", "A", "N", "U", "S">>)

Chars7 ==
  ("SE_VARUNA" :> <<"S", "E", "_", "V", "A", "R", "U", "N", "A">>)
  @@ ("SE_VENUS" :> <<"S", "E", "_", "V", "E", "N", "U", "S">>)
  @@ ("SE_VERSION" :> <<"S", "E", "_", "V", "E", "R", "S", "I", "O", "N">>)
  @@ ("SE_VERTEX" :> <<"S", "E", "_", "V", "E", "R", "T", "E", "X">>)
  @@ ("SE_VESTA" :> <<"S", "E", "_", "V", "E", "S", "T", "A">>)
  @@ ("SE_VULCAN" :> <<"S", "E", "_", "V", "U", "L", "C", "A", "N">>)
  @@ ("SE_VULKANUS" :> <<"S", "E", "_", "V", "U", "L", "K", "A", "N", "U", "S">>)
  @@ ("SE_WALDEMATH" :> <<"S", "E", "_", "W", "A", "L", "D", "E", "M", "A", "T", "H">>)
  @@ ("SE_WHITE_MOON" :> <<"S", "E", "_", "W", "H", "I", "T", "E", "_", "M", "O", "O", "N">>)
  @@ ("SE_ZEUS" :> <<"S", "E", "_", "Z", "E", "U", "S">>)
  @@ ("SIDEREAL_BITS" :> <<"S", "I", "D", "E", "R", "E", "A", "L", "_", "B", "I", "T", "S">>)
  @@ ("SIMULATE_VICTORVB" :> <<"S", "I", "M", "U", "L", "A", "T", "E", "_", "V", "I", "C", "T", "O", "R", "V", "B">>)
  @@ ("SPLIT_DEG" :> <<"S", "P", "L", "I", "T", "_", "D", "E", "G">>)
  @@ ("SUN" :> <<"S", "U", "N">>)
  @@ ("Sidereal" :> <<"S", "i", "d", "e", "r", "e", "a", "l">>)
  @@ ("TIDAL" :> <<"T", "I", "D", "A", "L">>)
  @@ ("TJD_INVALID" :> <<"T", "J", "D", "_", "I", "N", "V", "A", "L", "I", "D">>)
  @@ ("TRUE_NODE" :> <<"T", "R", "U", "E", "_", "N", "O", "D", "E">>)
  @@ ("TRUE_TO_APP" :> <<"T", "R", "U", "E", "_", "T", "O", "_", "A", "P", "P">>)
  @@ ("TypeEvent" :> <<"T", "y", "p", "e", "E", "v", "e", "n", "t">>)
  @@ ("UNITS" :> <<"U", "N", "I", "T", "S">>)
  @@ ("URANUS" :> <<"U", "R", "A", "N", "U", "S">>)
  @@ ("Utility" :> <<"U", "t", "i", "l", "i", "t", "y">>)
  @@ ("VARUNA" :> <<"V", "A", "R", "U", "N", "A">>)
  @@ ("VENUS" :> <<"V", "E", "N", "U", "S">>)
  @@ ("VERTEX" :> <<"V", "E", "R", "T", "E", "X">>)
  @@ ("VESTA" :> <<"V", "E", "S", "T", "A">>)
  @@ ("VULCAN" :> <<"V", "U", "L", "C", "A", "N">>)
  @@ ("VULKANUS" :> <<"V", "U", "L", "K", "A", "N", "U", "S">>)
  @@ ("WALDEMATH" :> <<"W", "A", "L", "D", "E", "M", "A", "T", "H">>)
  @@ ("WHITE_MOON" :> <<"W", "H", "I", "T", "E", "_", "M", "O", "O", "N">>)
  @@ ("X_SE_SUN" :> <<"X", "_", "S", "E", "_", "S", "U", "N">>)
  @@ ("ZEUS" :> <<"Z", "E", "U", "S">>)
  @@ ("\"2.10\"" :> <<"\"", "2", ".", "1", "0", "\"">>)
  @@ ("]'" :> <<"]", "'">>)
  @@ ("_" :> <<"_">>)
  @@ ("_SWEPHEXP_INCLUDED" :> <<"_", "S", "W", "E", "P", "H", "E", "X", "P", "_", "I", "N", "C", "L", "U", "D", "E", "D">>)
  @@ ("_free" :> <<"_", "f", "r", "e", "e">>)
  @@ ("_malloc" :> <<"_", "m", "a", "l", "l", "o", "c">>)
  @@ ("alt_moon" :> <<"a", "l", "t", "_", "m", "o", "o", "n">>)
  @@ ("alt_obj" :> <<"a", "l", "t", "_", "o", "b", "j">>)
  @@ ("apparentToLocalMeanTime" :> <<"a", "p", "p", "a", "r", "e", "n", "t", "T", "o", "L", "o", "c", "a", "l", "M", "e", "a", "n", "T", "i", "m", "e">>)
  @@ ("arg" :> <<"a", "r", "g">>)
  @@ ("arg0" :> <<"a", "r", "g", "0">>)
  @@ ("arg1" :> <<"a", "r", "g", "1">>)
  @@ ("armc" :> <<"a", "r", "m", "c">>)
  @@ ("ascmc" :> <<"a", "s", "c", "m", "c">>)
  @@ ("ascmc_speed" :> <<"a", "s", "c", "m", "c", "_", "s", "p", "e", "e", "d">>)
  @@ ("atpress" :> <<"a", "t", "p", "r", "e", "s", "s">>)
  @@ ("attemp" :> <<"a", "t", "t", "e", "m", "p">>)
  @@ ("attr" :> <<"a", "t", "t", "r">>)
  @@ ("ayan_t0" :> <<"a", "y", "a", "n", "_", "t", "0">>)
  @@ ("ayanamsa" :> <<"a", "y", "a", "n", "a", "m", "s", "a">>)
  @@ ("azalt" :> <<"a", "z", "a", "l", "t">>)
  @@ ("azi_moon" :> <<"a", "z", "i", "_", "m", "o", "o", "n">>)
  @@ ("azi_obj" :> <<"a", "z", "i", "_", "o", "b", "j">>)
  @@ ("azi_sun" :> <<"a", "z", "i", "_", "s", "u", "n">>)
  @@ ("azimuthAltitude" :> <<"a", "z", "i", "m", "u", "t", "h", "A", "l", "t", "i", "t", "u", "d", "e">>)
  @@ ("azimuthAltitudeReverse" :> <<"a", "z", "i", "m", "u", "t", "h", "A", "l", "t", "i", "t", "u", "d", "e", "R", "e", "v", "e", "r", "s", "e">>)
  @@ ("backward" :> <<"b", "a", "c", "k", "w", "a", "r", "d">>)
  @@ ("c" :> <<"c">>)
  @@ ("calc" :> <<"c", "a", "l", "c">>)
  @@ ("calcEt" :> <<"c", "a", "l", "c", "E", "t">>)
  @@ ("calcPlanetocentric" :> <<"c", "a", "l", "c", "P", "l", "a", "n", "e", "t", "o", "c", "e", "n", "t", "r", "i", "c">>)
  @@ ("calc_flag" :> <<"c", "a", "l", "c", "_", "f", "l", "a", "g">>)
  @@ ("calc_pctr" :> <<"c", "a", "l", "c", "_", "p", "c", "t", "r">>)
  @@ ("calc_ut" :> <<"c", "a", "l", "c", "_", "u", "t">>)
  @@ ("char *" :> <<"c", "h", "a", "r", " ", "*">>)
  @@ ("close" :> <<"c", "l", "o", "s", "e">>)
  @@ ("const" :> <<"c", "o", "n", "s", "t">>)
  @@ ("const char *hsys" :> <<"c", "o", "n", "s", "t", " ", "c", "h", "a", "r", " ", "*", "h", "s", "y", "s">>)
  @@ ("coordinateTransform" :> <<"c", "o", "o", "r", "d", "i", "n", "a", "t", "e", "T", "r", "a", "n", "s", "f", "o", "r", "m">>)
  @@ ("coordinateTransformWithSpeed" :> <<"c", "o", "o", "r", "d", "i", "n", "a", "t", "e", "T", "r", "a", "n", "s", "f", "o", "r", "m", "W", "i", "t", "h", "S", "p", "e", "e", "d">>)
  @@ ("cotrans" :> <<"c", "o", "t", "r", "a", "n", "s">>)
  @@ ("csnorm" :> <<"c", "s", "n", "o", "r", "m">>)
  @@ ("csround" :> <<"c", "s", "r", "o", "u", "n", "d">>)
  @@ ("cusp_speed" :> <<"c", "u", "s", "p", "_", "s", "p", "e", "e", "d">>)
  @@ ("cusps" :> <<"c", "u", "s", "p", "s">>)
  @@ ("d" :> <<"d">>)
  @@ ("d2l" :> <<"d", "2", "l">>)

Chars8 ==
  ("d_timezone" :> <<"d", "_", "t", "i", "m", "e", "z", "o", "n", "e">>)
  @@ ("darr" :> <<"d", "a", "r", "r">>)
  @@ ("dateConversion" :> <<"d", "a", "t", "e", "C", "o", "n", "v", "e", "r", "s", "i", "o", "n">>)
  @@ ("date_conversion" :> <<"d", "a", "t", "e", "_", "c", "o", "n", "v", "e", "r", "s", "i", "o", "n">>)
  @@ ("datm" :> <<"d", "a", "t", "m">>)
  @@ ("day" :> <<"d", "a", "y">>)
  @@ ("dayOfWeek" :> <<"d", "a", "y", "O", "f", "W", "e", "e", "k">>)
  @@ ("day_of_week" :> <<"d", "a", "y", "_", "o", "f", "_", "w", "e", "e", "k">>)
  @@ ("daya" :> <<"d", "a", "y", "a">>)
  @@ ("ddeg" :> <<"d", "d", "e", "g">>)
  @@ ("degnorm" :> <<"d", "e", "g", "n", "o", "r", "m">>)
  @@ ("degreeMidpoint" :> <<"d", "e", "g", "r", "e", "e", "M", "i", "d", "p", "o", "i", "n", "t">>)
  @@ ("deltaT" :> <<"d", "e", "l", "t", "a", "T">>)
  @@ ("deltaTExtended" :> <<"d", "e", "l", "t", "a", "T", "E", "x", "t", "e", "n", "d", "e", "d">>)
  @@ ("deltat" :> <<"d", "e", "l", "t", "a", "t">>)
  @@ ("dgeo" :> <<"d", "g", "e", "o">>)
  @@ ("dgsect" :> <<"d", "g", "s", "e", "c", "t">>)
  @@ ("difcs" :> <<"d", "i", "f", "c", "s">>)
  @@ ("difdeg" :> <<"d", "i", "f", "d", "e", "g">>)
  @@ ("differenceCentiseconds" :> <<"d", "i", "f", "f", "e", "r", "e", "n", "c", "e", "C", "e", "n", "t", "i", "s", "e", "c", "o", "n", "d", "s">>)
  @@ ("differenceCentiseconds2" :> <<"d", "i", "f", "f", "e", "r", "e", "n", "c", "e", "C", "e", "n", "t", "i", "s", "e", "c", "o", "n", "d", "s", "2">>)
  @@ ("differenceDegrees" :> <<"d", "i", "f", "f", "e", "r", "e", "n", "c", "e", "D", "e", "g", "r", "e", "e", "s">>)
  @@ ("differenceDegrees2" :> <<"d", "i", "f", "f", "e", "r", "e", "n", "c", "e", "D", "e", "g", "r", "e", "e", "s", "2">>)
  @@ ("differenceRadians2" :> <<"d", "i", "f", "f", "e", "r", "e", "n", "c", "e", "R", "a", "d", "i", "a", "n", "s", "2">>)
  @@ ("difrad" :> <<"d", "i", "f", "r", "a", "d">>)
  @@ ("dir" :> <<"d", "i", "r">>)
  @@ ("dmax" :> <<"d", "m", "a", "x">>)
  @@ ("dmin" :> <<"d", "m", "i", "n">>)
  @@ ("do_interpolate" :> <<"d", "o", "_", "i", "n", "t", "e", "r", "p", "o", "l", "a", "t", "e">>)
  @@ ("dobs" :> <<"d", "o", "b", "s">>)
  @@ ("double" :> <<"d", "o", "u", "b", "l", "e">>)
  @@ ("double *" :> <<"d", "o", "u", "b", "l", "e", " ", "*">>)
  @@ ("double tjd_ut" :> <<"d", "o", "u", "b", "l", "e", " ", "t", "j", "d", "_", "u", "t">>)
  @@ ("double tjd_ut, int32 ipl, int32 iflag, double *xx, char *serr" :> <<"d", "o", "u", "b", "l", "e", " ", "t", "j", "d", "_", "u", "t", ",", " ", "i", "n", "t", "3", "2", " ", "i", "p", "l", ",", " ", "i", "n", "t", "3", "2", " ", "i", "f", "l", "a", "g", ",", " ", "d", "o", "u", "b", "l", "e", " ", "*", "x", "x", ",", " ", "c", "h", "a", "r", " ", "*", "s", "e", "r", "r">>)
  @@ ("double, const char *hsys" :> <<"d", "o", "u", "b", "l", "e", ",", " ", "c", "o", "n", "s", "t", " ", "c", "h", "a", "r", " ", "*", "h", "s", "y", "s">>)
  @@ ("doubleToLong" :> <<"d", "o", "u", "b", "l", "e", "T", "o", "L", "o", "n", "g">>)
  @@ ("dret" :> <<"d", "r", "e", "t">>)
  @@ ("dsec" :> <<"d", "s", "e", "c">>)
  @@ ("dsec_out" :> <<"d", "s", "e", "c", "_", "o", "u", "t">>)
  @@ ("dsecfr" :> <<"d", "s", "e", "c", "f", "r">>)
  @@ ("dt" :> <<"d", "t">>)
  @@ ("dtrue" :> <<"d", "t", "r", "u", "e">>)
  @@ ("eclipse" :> <<"e", "c", "l", "i", "p", "s", "e">>)
  @@ ("epheflag" :> <<"e", "p", "h", "e", "f", "l", "a", "g">>)
  @@ ("eps" :> <<"e", "p", "s">>)
  @@ ("equationOfTime" :> <<"e", "q", "u", "a", "t", "i", "o", "n", "O", "f", "T", "i", "m", "e">>)
  @@ ("export * from \"./constants.js\";" :> <<"e", "x", "p", "o", "r", "t", " ", "*", " ", "f", "r", "o", "m", " ", "\"", ".", "/", "c", "o", "n", "s", "t", "a", "n", "t", "s", ".", "j", "s", "\"", ";">>)
  @@ ("export * from \"./friendly.js\";" :> <<"e", "x", "p", "o", "r", "t", " ", "*", " ", "f", "r", "o", "m", " ", "\"", ".", "/", "f", "r", "i", "e", "n", "d", "l", "y", ".", "j", "s", "\"", ";">>)
  @@ ("export * from \"./functions.js\";" :> <<"e", "x", "p", "o", "r", "t", " ", "*", " ", "f", "r", "o", "m", " ", "\"", ".", "/", "f", "u", "n", "c", "t", "i", "o", "n", "s", ".", "j", "s", "\"", ";">>)
  @@ ("export const " :> <<"e", "x", "p", "o", "r", "t", " ", "c", "o", "n", "s", "t", " ">>)
  @@ ("export interface SwissEphWasm {" :> <<"e", "x", "p", "o", "r", "t", " ", "i", "n", "t", "e", "r", "f", "a", "c", "e", " ", "S", "w", "i", "s", "s", "E", "p", "h", "W", "a", "s", "m", " ", "{">>)
  @@ ("ext_def" :> <<"e", "x", "t", "_", "d", "e", "f">>)
  @@ ("fixedStar" :> <<"f", "i", "x", "e", "d", "S", "t", "a", "r">>)
  @@ ("fixedStar2" :> <<"f", "i", "x", "e", "d", "S", "t", "a", "r", "2">>)
  @@ ("fixedStar2Et" :> <<"f", "i", "x", "e", "d", "S", "t", "a", "r", "2", "E", "t">>)
  @@ ("fixedStar2Magnitude" :> <<"f", "i", "x", "e", "d", "S", "t", "a", "r", "2", "M", "a", "g", "n", "i", "t", "u", "d", "e">>)
  @@ ("fixedStarEt" :> <<"f", "i", "x", "e", "d", "S", "t", "a", "r", "E", "t">>)
  @@ ("fixedStarMagnitude" :> <<"f", "i", "x", "e", "d", "S", "t", "a", "r", "M", "a", "g", "n", "i", "t", "u", "d", "e">>)
  @@ ("fixstar" :> <<"f", "i", "x", "s", "t", "a", "r">>)
  @@ ("flag" :> <<"f", "l", "a", "g">>)
  @@ ("fname" :> <<"f", "n", "a", "m", "e">>)
  @@ ("gauquelinSector" :> <<"g", "a", "u", "q", "u", "e", "l", "i", "n", "S", "e", "c", "t", "o", "r">>)
  @@ ("geoalt" :> <<"g", "e", "o", "a", "l", "t">>)
  @@ ("geolat" :> <<"g", "e", "o", "l", "a", "t">>)
  @@ ("geolon" :> <<"g", "e", "o", "l", "o", "n">>)
  @@ ("geopos" :> <<"g", "e", "o", "p", "o", "s">>)
  @@ ("getAstroModels" :> <<"g", "e", "t", "A", "s", "t", "r", "o", "M", "o", "d", "e", "l", "s">>)
  @@ ("getAyanamsa" :> <<"g", "e", "t", "A", "y", "a", "n", "a", "m", "s", "a">>)
  @@ ("getAyanamsaEt" :> <<"g", "e", "t", "A", "y", "a", "n", "a", "m", "s", "a", "E", "t">>)
  @@ ("getAyanamsaEx" :> <<"g", "e", "t", "A", "y", "a", "n", "a", "m", "s", "a", "E", "x">>)
  @@ ("getAyanamsaExEt" :> <<"g", "e", "t", "A", "y", "a", "n", "a", "m", "s", "a", "E", "x", "E", "t">>)
  @@ ("getPlanetName" :> <<"g", "e", "t", "P", "l", "a", "n", "e", "t", "N", "a", "m", "e">>)
  @@ ("getTidalAcceleration" :> <<"g", "e", "t", "T", "i", "d", "a", "l", "A", "c", "c", "e", "l", "e", "r", "a", "t", "i", "o", "n">>)
  @@ ("gregflag" :> <<"g", "r", "e", "g", "f", "l", "a", "g">>)
  @@ ("helflag" :> <<"h", "e", "l", "f", "l", "a", "g">>)
  @@ ("heliacal" :> <<"h", "e", "l", "i", "a", "c", "a", "l">>)
  @@ ("heliacalAngle" :> <<"h", "e", "l", "i", "a", "c", "a", "l", "A", "n", "g", "l", "e">>)
  @@ ("heliacalPhenomena" :> <<"h", "e", "l", "i", "a", "c", "a", "l", "P", "h", "e", "n", "o", "m", "e", "n", "a">>)
  @@ ("heliacalRising" :> <<"h", "e", "l", "i", "a", "c", "a", "l", "R", "i", "s", "i", "n", "g">>)
  @@ ("helioCrossing" :> <<"h", "e", "l", "i", "o", "C", "r", "o", "s", "s", "i", "n", "g">>)

Chars9 ==
  ("helioCrossingEt" :> <<"h", "e", "l", "i", "o", "C", "r", "o", "s", "s", "i", "n", "g", "E", "t">>)
  @@ ("helio_cross" :> <<"h", "e", "l", "i", "o", "_", "c", "r", "o", "s", "s">>)
  @@ ("horhgt" :> <<"h", "o", "r", "h", "g", "t">>)
  @@ ("hour" :> <<"h", "o", "u", "r">>)
  @@ ("house" :> <<"h", "o", "u", "s", "e">>)
  @@ ("housePosition" :> <<"h", "o", "u", "s", "e", "P", "o", "s", "i", "t", "i", "o", "n">>)
  @@ ("houses" :> <<"h", "o", "u", "s", "e", "s">>)
  @@ ("housesArmc" :> <<"h", "o", "u", "s", "e", "s", "A", "r", "m", "c">>)
  @@ ("housesArmcWithSpeed" :> <<"h", "o", "u", "s", "e", "s", "A", "r", "m", "c", "W", "i", "t", "h", "S", "p", "e", "e", "d">>)
  @@ ("housesSimple" :> <<"h", "o", "u", "s", "e", "s", "S", "i", "m", "p", "l", "e">>)
  @@ ("housesWithSpeed" :> <<"h", "o", "u", "s", "e", "s", "W", "i", "t", "h", "S", "p", "e", "e", "d">>)
  @@ ("hsys" :> <<"h", "s", "y", "s">>)
  @@ ("iday" :> <<"i", "d", "a", "y">>)
  @@ ("iday_out" :> <<"i", "d", "a", "y", "_", "o", "u", "t">>)
  @@ ("ideg" :> <<"i", "d", "e", "g">>)
  @@ ("ifl" :> <<"i", "f", "l">>)
  @@ ("iflag" :> <<"i", "f", "l", "a", "g">>)
  @@ ("ifltype" :> <<"i", "f", "l", "t", "y", "p", "e">>)
  @@ ("ihour" :> <<"i", "h", "o", "u", "r">>)
  @@ ("ihour_out" :> <<"i", "h", "o", "u", "r", "_", "o", "u", "t">>)
  @@ ("imeth" :> <<"i", "m", "e", "t", "h">>)
  @@ ("imin" :> <<"i", "m", "i", "n">>)
  @@ ("imin_out" :> <<"i", "m", "i", "n", "_", "o", "u", "t">>)
  @@ ("imonth" :> <<"i", "m", "o", "n", "t", "h">>)
  @@ ("imonth_out" :> <<"i", "m", "o", "n", "t", "h", "_", "o", "u", "t">>)
  @@ ("inalt" :> <<"i", "n", "a", "l", "t">>)
  @@ ("int" :> <<"i", "n", "t">>)
  @@ ("int y , int m , int d ,\n double utime, /* hours */ char c, double *tjd" :> <<"i", "n", "t", " ", "y", " ", ",", " ", "i", "n", "t", " ", "m", " ", ",", " ", "i", "n", "t", " ", "d", " ", ",", "\n", " ", "d", "o", "u", "b", "l", "e", " ", "u", "t", "i", "m", "e", ",", " ", "/", "*", " ", "h", "o", "u", "r", "s", " ", "*", "/", " ", "c", "h", "a", "r", " ", "c", ",", " ", "d", "o", "u", "b", "l", "e", " ", "*", "t", "j", "d">>)
  @@ ("int year, int month, int day, double hour, int gregflag" :> <<"i", "n", "t", " ", "y", "e", "a", "r", ",", " ", "i", "n", "t", " ", "m", "o", "n", "t", "h", ",", " ", "i", "n", "t", " ", "d", "a", "y", ",", " ", "d", "o", "u", "b", "l", "e", " ", "h", "o", "u", "r", ",", " ", "i", "n", "t", " ", "g", "r", "e", "g", "f", "l", "a", "g">>)
  @@ ("int32" :> <<"i", "n", "t", "3", "2">>)
  @@ ("int32 arg1" :> <<"i", "n", "t", "3", "2", " ", "a", "r", "g", "1">>)
  @@ ("ipl" :> <<"i", "p", "l">>)
  @@ ("iplctr" :> <<"i", "p", "l", "c", "t", "r">>)
  @@ ("isec" :> <<"i", "s", "e", "c">>)
  @@ ("isgn" :> <<"i", "s", "g", "n">>)
  @@ ("iyear" :> <<"i", "y", "e", "a", "r">>)
  @@ ("iyear_out" :> <<"i", "y", "e", "a", "r", "_", "o", "u", "t">>)
  @@ ("jd" :> <<"j", "d">>)
  @@ ("jdEtToUtc" :> <<"j", "d", "E", "t", "T", "o", "U", "t", "c">>)
  @@ ("jdUt1ToUtc" :> <<"j", "d", "U", "t", "1", "T", "o", "U", "t", "c">>)
  @@ ("jd_cross" :> <<"j", "d", "_", "c", "r", "o", "s", "s">>)
  @@ ("jd_et" :> <<"j", "d", "_", "e", "t">>)
  @@ ("jd_ut" :> <<"j", "d", "_", "u", "t">>)
  @@ ("jday" :> <<"j", "d", "a", "y">>)
  @@ ("jdet" :> <<"j", "d", "e", "t">>)
  @@ ("jdut" :> <<"j", "d", "u", "t">>)
  @@ ("jmon" :> <<"j", "m", "o", "n">>)
  @@ ("julday" :> <<"j", "u", "l", "d", "a", "y">>)
  @@ ("jut" :> <<"j", "u", "t">>)
  @@ ("jyear" :> <<"j", "y", "e", "a", "r">>)
  @@ ("lapse_rate" :> <<"l", "a", "p", "s", "e", "_", "r", "a", "t", "e">>)
  @@ ("lat_to_lmt" :> <<"l", "a", "t", "_", "t", "o", "_", "l", "m", "t">>)
  @@ ("lmt_to_lat" :> <<"l", "m", "t", "_", "t", "o", "_", "l", "a", "t">>)
  @@ ("localMeanTimeToApparent" :> <<"l", "o", "c", "a", "l", "M", "e", "a", "n", "T", "i", "m", "e", "T", "o", "A", "p", "p", "a", "r", "e", "n", "t">>)
  @@ ("lunarEclipseHow" :> <<"l", "u", "n", "a", "r", "E", "c", "l", "i", "p", "s", "e", "H", "o", "w">>)
  @@ ("lunarEclipseWhen" :> <<"l", "u", "n", "a", "r", "E", "c", "l", "i", "p", "s", "e", "W", "h", "e", "n">>)
  @@ ("lunarEclipseWhenLocal" :> <<"l", "u", "n", "a", "r", "E", "c", "l", "i", "p", "s", "e", "W", "h", "e", "n", "L", "o", "c", "a", "l">>)
  @@ ("lunarOccultationWhenGlobal" :> <<"l", "u", "n", "a", "r", "O", "c", "c", "u", "l", "t", "a", "t", "i", "o", "n", "W", "h", "e", "n", "G", "l", "o", "b", "a", "l">>)
  @@ ("lunarOccultationWhenLocal" :> <<"l", "u", "n", "a", "r", "O", "c", "c", "u", "l", "t", "a", "t", "i", "o", "n", "W", "h", "e", "n", "L", "o", "c", "a", "l">>)
  @@ ("lunarOccultationWhere" :> <<"l", "u", "n", "a", "r", "O", "c", "c", "u", "l", "t", "a", "t", "i", "o", "n", "W", "h", "e", "r", "e">>)
  @@ ("m" :> <<"m">>)
  @@ ("mag" :> <<"m", "a", "g">>)
  @@ ("method" :> <<"m", "e", "t", "h", "o", "d">>)
  @@ ("midp" :> <<"m", "i", "d", "p">>)
  @@ ("month" :> <<"m", "o", "n", "t", "h">>)
  @@ ("moonCrossing" :> <<"m", "o", "o", "n", "C", "r", "o", "s", "s", "i", "n", "g">>)
  @@ ("moonCrossingEt" :> <<"m", "o", "o", "n", "C", "r", "o", "s", "s", "i", "n", "g", "E", "t">>)
  @@ ("moonNodeCrossing" :> <<"m", "o", "o", "n", "N", "o", "d", "e", "C", "r", "o", "s", "s", "i", "n", "g">>)
  @@ ("moonNodeCrossingEt" :> <<"m", "o", "o", "n", "N", "o", "d", "e", "C", "r", "o", "s", "s", "i", "n", "g", "E", "t">>)
  @@ ("mooncross" :> <<"m", "o", "o", "n", "c", "r", "o", "s", "s">>)
  @@ ("nod_aps" :> <<"n", "o", "d", "_", "a", "p", "s">>)
  @@ ("nodesApsides" :> <<"n", "o", "d", "e", "s", "A", "p", "s", "i", "d", "e", "s">>)
  @@ ("nodesApsidesEt" :> <<"n", "o", "d", "e", "s", "A", "p", "s", "i", "d", "e", "s", "E", "t">>)
  @@ ("normalizeCentiseconds" :> <<"n", "o", "r", "m", "a", "l", "i", "z", "e", "C", "e", "n", "t", "i", "s", "e", "c", "o", "n", "d", "s">>)
  @@ ("normalizeDegrees" :> <<"n", "o", "r", "m", "a", "l", "i", "z", "e", "D", "e", "g", "r", "e", "e", "s">>)
  @@ ("normalizeRadians" :> <<"n", "o", "r", "m", "a", "l", "i", "z", "e", "R", "a", "d", "i", "a", "n", "s">>)
  @@ ("number" :> <<"n", "u", "m", "b", "e", "r">>)
  @@ ("nut" :> <<"n", "u", "t">>)
  @@ ("occult" :> <<"o", "c", "c", "u", "l", "t">>)
  @@ ("orbitDistanceExtremes" :> <<"o", "r", "b", "i", "t", "D", "i", "s", "t", "a", "n", "c", "e", "E", "x", "t", "r", "e", "m", "e", "s">>)

Chars10 ==
  ("orbital" :> <<"o", "r", "b", "i", "t", "a", "l">>)
  @@ ("orbitalElements" :> <<"o", "r", "b", "i", "t", "a", "l", "E", "l", "e", "m", "e", "n", "t", "s">>)
  @@ ("p" :> <<"p">>)
  @@ ("p1" :> <<"p", "1">>)
  @@ ("p2" :> <<"p", "2">>)
  @@ ("path" :> <<"p", "a", "t", "h">>)
  @@ ("pheno" :> <<"p", "h", "e", "n", "o">>)
  @@ ("phenomena" :> <<"p", "h", "e", "n", "o", "m", "e", "n", "a">>)
  @@ ("phenomenaEt" :> <<"p", "h", "e", "n", "o", "m", "e", "n", "a", "E", "t">>)
  @@ ("radianMidpoint" :> <<"r", "a", "d", "i", "a", "n", "M", "i", "d", "p", "o", "i", "n", "t">>)
  @@ ("radnorm" :> <<"r", "a", "d", "n", "o", "r", "m">>)
  @@ ("refrac" :> <<"r", "e", "f", "r", "a", "c">>)
  @@ ("refraction" :> <<"r", "e", "f", "r", "a", "c", "t", "i", "o", "n">>)
  @@ ("refractionExtended" :> <<"r", "e", "f", "r", "a", "c", "t", "i", "o", "n", "E", "x", "t", "e", "n", "d", "e", "d">>)
  @@ ("revjul" :> <<"r", "e", "v", "j", "u", "l">>)
  @@ ("riseTransit" :> <<"r", "i", "s", "e", "T", "r", "a", "n", "s", "i", "t">>)
  @@ ("riseTransitTrueHorizon" :> <<"r", "i", "s", "e", "T", "r", "a", "n", "s", "i", "t", "T", "r", "u", "e", "H", "o", "r", "i", "z", "o", "n">>)
  @@ ("rise_trans" :> <<"r", "i", "s", "e", "_", "t", "r", "a", "n", "s">>)
  @@ ("roundCentiseconds" :> <<"r", "o", "u", "n", "d", "C", "e", "n", "t", "i", "s", "e", "c", "o", "n", "d", "s">>)
  @@ ("roundflag" :> <<"r", "o", "u", "n", "d", "f", "l", "a", "g">>)
  @@ ("rsmi" :> <<"r", "s", "m", "i">>)
  @@ ("samod" :> <<"s", "a", "m", "o", "d">>)
  @@ ("sdet" :> <<"s", "d", "e", "t">>)
  @@ ("serr" :> <<"s", "e", "r", "r">>)
  @@ ("setAstroModels" :> <<"s", "e", "t", "A", "s", "t", "r", "o", "M", "o", "d", "e", "l", "s">>)
  @@ ("setDeltaTUserDefined" :> <<"s", "e", "t", "D", "e", "l", "t", "a", "T", "U", "s", "e", "r", "D", "e", "f", "i", "n", "e", "d">>)
  @@ ("setEphemerisPath" :> <<"s", "e", "t", "E", "p", "h", "e", "m", "e", "r", "i", "s", "P", "a", "t", "h">>)
  @@ ("setInterpolateNutation" :> <<"s", "e", "t", "I", "n", "t", "e", "r", "p", "o", "l", "a", "t", "e", "N", "u", "t", "a", "t", "i", "o", "n">>)
  @@ ("setJplFile" :> <<"s", "e", "t", "J", "p", "l", "F", "i", "l", "e">>)
  @@ ("setLapseRate" :> <<"s", "e", "t", "L", "a", "p", "s", "e", "R", "a", "t", "e">>)
  @@ ("setSiderealMode" :> <<"s", "e", "t", "S", "i", "d", "e", "r", "e", "a", "l", "M", "o", "d", "e">>)
  @@ ("setTidalAcceleration" :> <<"s", "e", "t", "T", "i", "d", "a", "l", "A", "c", "c", "e", "l", "e", "r", "a", "t", "i", "o", "n">>)
  @@ ("setTopocentric" :> <<"s", "e", "t", "T", "o", "p", "o", "c", "e", "n", "t", "r", "i", "c">>)
  @@ ("sid" :> <<"s", "i", "d">>)
  @@ ("sid_mode" :> <<"s", "i", "d", "_", "m", "o", "d", "e">>)
  @@ ("siderealTime" :> <<"s", "i", "d", "e", "r", "e", "a", "l", "T", "i", "m", "e">>)
  @@ ("siderealTime0" :> <<"s", "i", "d", "e", "r", "e", "a", "l", "T", "i", "m", "e", "0">>)
  @@ ("solarCrossing" :> <<"s", "o", "l", "a", "r", "C", "r", "o", "s", "s", "i", "n", "g">>)
  @@ ("solarCrossingEt" :> <<"s", "o", "l", "a", "r", "C", "r", "o", "s", "s", "i", "n", "g", "E", "t">>)
  @@ ("solarEclipseHow" :> <<"s", "o", "l", "a", "r", "E", "c", "l", "i", "p", "s", "e", "H", "o", "w">>)
  @@ ("solarEclipseWhenGlobal" :> <<"s", "o", "l", "a", "r", "E", "c", "l", "i", "p", "s", "e", "W", "h", "e", "n", "G", "l", "o", "b", "a", "l">>)
  @@ ("solarEclipseWhenLocal" :> <<"s", "o", "l", "a", "r", "E", "c", "l", "i", "p", "s", "e", "W", "h", "e", "n", "L", "o", "c", "a", "l">>)
  @@ ("solarEclipseWhere" :> <<"s", "o", "l", "a", "r", "E", "c", "l", "i", "p", "s", "e", "W", "h", "e", "r", "e">>)
  @@ ("solcross" :> <<"s", "o", "l", "c", "r", "o", "s", "s">>)
  @@ ("splitDegrees" :> <<"s", "p", "l", "i", "t", "D", "e", "g", "r", "e", "e", "s">>)
  @@ ("split_deg" :> <<"s", "p", "l", "i", "t", "_", "d", "e", "g">>)
  @@ ("spname" :> <<"s", "p", "n", "a", "m", "e">>)
  @@ ("star" :> <<"s", "t", "a", "r">>)
  @@ ("starname" :> <<"s", "t", "a", "r", "n", "a", "m", "e">>)
  @@ ("swe_" :> <<"s", "w", "e", "_">>)
  @@ ("swe_azalt" :> <<"s", "w", "e", "_", "a", "z", "a", "l", "t">>)
  @@ ("swe_azalt_rev" :> <<"s", "w", "e", "_", "a", "z", "a", "l", "t", "_", "r", "e", "v">>)
  @@ ("swe_calc" :> <<"s", "w", "e", "_", "c", "a", "l", "c">>)
  @@ ("swe_calc_pctr" :> <<"s", "w", "e", "_", "c", "a", "l", "c", "_", "p", "c", "t", "r">>)
  @@ ("swe_calc_ut" :> <<"s", "w", "e", "_", "c", "a", "l", "c", "_", "u", "t">>)
  @@ ("swe_close" :> <<"s", "w", "e", "_", "c", "l", "o", "s", "e">>)
  @@ ("swe_cotrans" :> <<"s", "w", "e", "_", "c", "o", "t", "r", "a", "n", "s">>)
  @@ ("swe_cotrans_sp" :> <<"s", "w", "e", "_", "c", "o", "t", "r", "a", "n", "s", "_", "s", "p">>)
  @@ ("swe_cs2degstr" :> <<"s", "w", "e", "_", "c", "s", "2", "d", "e", "g", "s", "t", "r">>)
  @@ ("swe_cs2lonlatstr" :> <<"s", "w", "e", "_", "c", "s", "2", "l", "o", "n", "l", "a", "t", "s", "t", "r">>)
  @@ ("swe_cs2timestr" :> <<"s", "w", "e", "_", "c", "s", "2", "t", "i", "m", "e", "s", "t", "r">>)
  @@ ("swe_csnorm" :> <<"s", "w", "e", "_", "c", "s", "n", "o", "r", "m">>)
  @@ ("swe_csroundsec" :> <<"s", "w", "e", "_", "c", "s", "r", "o", "u", "n", "d", "s", "e", "c">>)
  @@ ("swe_d2l" :> <<"s", "w", "e", "_", "d", "2", "l">>)
  @@ ("swe_date_conversion" :> <<"s", "w", "e", "_", "d", "a", "t", "e", "_", "c", "o", "n", "v", "e", "r", "s", "i", "o", "n">>)
  @@ ("swe_day_of_week" :> <<"s", "w", "e", "_", "d", "a", "y", "_", "o", "f", "_", "w", "e", "e", "k">>)
  @@ ("swe_deg_midp" :> <<"s", "w", "e", "_", "d", "e", "g", "_", "m", "i", "d", "p">>)
  @@ ("swe_degnorm" :> <<"s", "w", "e", "_", "d", "e", "g", "n", "o", "r", "m">>)
  @@ ("swe_deltat" :> <<"s", "w", "e", "_", "d", "e", "l", "t", "a", "t">>)
  @@ ("swe_deltat_ex" :> <<"s", "w", "e", "_", "d", "e", "l", "t", "a", "t", "_", "e", "x">>)
  @@ ("swe_difcs2n" :> <<"s", "w", "e", "_", "d", "i", "f", "c", "s", "2", "n">>)
  @@ ("swe_difcsn" :> <<"s", "w", "e", "_", "d", "i", "f", "c", "s", "n">>)
  @@ ("swe_difdeg2n" :> <<"s", "w", "e", "_", "d", "i", "f", "d", "e", "g", "2", "n">>)
  @@ ("swe_difdegn" :> <<"s", "w", "e", "_", "d", "i", "f", "d", "e", "g", "n">>)
  @@ ("swe_difrad2n" :> <<"s", "w", "e", "_", "d", "i", "f", "r", "a", "d", "2", "n">>)
  @@ ("swe_example" :> <<"s", "w", "e", "_", "e", "x", "a", "m", "p", "l", "e">>)
  @@ ("swe_fixstar" :> <<"s", "w", "e", "_", "f", "i", "x", "s", "t", "a", "r">>)
  @@ ("swe_fixstar2" :> <<"s", "w", "e", "_", "f", "i", "x", "s", "t", "a", "r", "2">>)
  @@ ("swe_fixstar2_mag" :> <<"s", "w", "e", "_", "f", "i", "x", "s", "t", "a", "r", "2", "_", "m", "a", "g">>)
  @@ ("swe_fixstar2_ut" :> <<"s", "w", "e", "_", "f", "i", "x", "s", "t", "a", "r", "2", "_", "u", "t">>)

Chars11 ==
  ("swe_fixstar_mag" :> <<"s", "w", "e", "_", "f", "i", "x", "s", "t", "a", "r", "_", "m", "a", "g">>)
  @@ ("swe_fixstar_ut" :> <<"s", "w", "e", "_", "f", "i", "x", "s", "t", "a", "r", "_", "u", "t">>)
  @@ ("swe_gauquelin_sector" :> <<"s", "w", "e", "_", "g", "a", "u", "q", "u", "e", "l", "i", "n", "_", "s", "e", "c", "t", "o", "r">>)
  @@ ("swe_get_astro_models" :> <<"s", "w", "e", "_", "g", "e", "t", "_", "a", "s", "t", "r", "o", "_", "m", "o", "d", "e", "l", "s">>)
  @@ ("swe_get_ayanamsa" :> <<"s", "w", "e", "_", "g", "e", "t", "_", "a", "y", "a", "n", "a", "m", "s", "a">>)
  @@ ("swe_get_ayanamsa_ex" :> <<"s", "w", "e", "_", "g", "e", "t", "_", "a", "y", "a", "n", "a", "m", "s", "a", "_", "e", "x">>)
  @@ ("swe_get_ayanamsa_ex_ut" :> <<"s", "w", "e", "_", "g", "e", "t", "_", "a", "y", "a", "n", "a", "m", "s", "a", "_", "e", "x", "_", "u", "t">>)
  @@ ("swe_get_ayanamsa_name" :> <<"s", "w", "e", "_", "g", "e", "t", "_", "a", "y", "a", "n", "a", "m", "s", "a", "_", "n", "a", "m", "e">>)
  @@ ("swe_get_ayanamsa_ut" :> <<"s", "w", "e", "_", "g", "e", "t", "_", "a", "y", "a", "n", "a", "m", "s", "a", "_", "u", "t">>)
  @@ ("swe_get_current_file_data" :> <<"s", "w", "e", "_", "g", "e", "t", "_", "c", "u", "r", "r", "e", "n", "t", "_", "f", "i", "l", "e", "_", "d", "a", "t", "a">>)
  @@ ("swe_get_library_path" :> <<"s", "w", "e", "_", "g", "e", "t", "_", "l", "i", "b", "r", "a", "r", "y", "_", "p", "a", "t", "h">>)
  @@ ("swe_get_orbital_elements" :> <<"s", "w", "e", "_", "g", "e", "t", "_", "o", "r", "b", "i", "t", "a", "l", "_", "e", "l", "e", "m", "e", "n", "t", "s">>)
  @@ ("swe_get_planet_name" :> <<"s", "w", "e", "_", "g", "e", "t", "_", "p", "l", "a", "n", "e", "t", "_", "n", "a", "m", "e">>)
  @@ ("swe_get_tid_acc" :> <<"s", "w", "e", "_", "g", "e", "t", "_", "t", "i", "d", "_", "a", "c", "c">>)
  @@ ("swe_heliacal_angle" :> <<"s", "w", "e", "_", "h", "e", "l", "i", "a", "c", "a", "l", "_", "a", "n", "g", "l", "e">>)
  @@ ("swe_heliacal_pheno_ut" :> <<"s", "w", "e", "_", "h", "e", "l", "i", "a", "c", "a", "l", "_", "p", "h", "e", "n", "o", "_", "u", "t">>)
  @@ ("swe_heliacal_ut" :> <<"s", "w", "e", "_", "h", "e", "l", "i", "a", "c", "a", "l", "_", "u", "t">>)
  @@ ("swe_helio_cross" :> <<"s", "w", "e", "_", "h", "e", "l", "i", "o", "_", "c", "r", "o", "s", "s">>)
  @@ ("swe_helio_cross_ut" :> <<"s", "w", "e", "_", "h", "e", "l", "i", "o", "_", "c", "r", "o", "s", "s", "_", "u", "t">>)
  @@ ("swe_house_name" :> <<"s", "w", "e", "_", "h", "o", "u", "s", "e", "_", "n", "a", "m", "e">>)
  @@ ("swe_house_pos" :> <<"s", "w", "e", "_", "h", "o", "u", "s", "e", "_", "p", "o", "s">>)
  @@ ("swe_houses" :> <<"s", "w", "e", "_", "h", "o", "u", "s", "e", "s">>)
  @@ ("swe_houses_armc" :> <<"s", "w", "e", "_", "h", "o", "u", "s", "e", "s", "_", "a", "r", "m", "c">>)
  @@ ("swe_houses_armc_ex2" :> <<"s", "w", "e", "_", "h", "o", "u", "s", "e", "s", "_", "a", "r", "m", "c", "_", "e", "x", "2">>)
  @@ ("swe_houses_ex" :> <<"s", "w", "e", "_", "h", "o", "u", "s", "e", "s", "_", "e", "x">>)
  @@ ("swe_houses_ex2" :> <<"s", "w", "e", "_", "h", "o", "u", "s", "e", "s", "_", "e", "x", "2">>)
  @@ ("swe_jdet_to_utc" :> <<"s", "w", "e", "_", "j", "d", "e", "t", "_", "t", "o", "_", "u", "t", "c">>)
  @@ ("swe_jdut1_to_utc" :> <<"s", "w", "e", "_", "j", "d", "u", "t", "1", "_", "t", "o", "_", "u", "t", "c">>)
  @@ ("swe_julday" :> <<"s", "w", "e", "_", "j", "u", "l", "d", "a", "y">>)
  @@ ("swe_lat_to_lmt" :> <<"s", "w", "e", "_", "l", "a", "t", "_", "t", "o", "_", "l", "m", "t">>)
  @@ ("swe_lmt_to_lat" :> <<"s", "w", "e", "_", "l", "m", "t", "_", "t", "o", "_", "l", "a", "t">>)
  @@ ("swe_lun_eclipse_how" :> <<"s", "w", "e", "_", "l", "u", "n", "_", "e", "c", "l", "i", "p", "s", "e", "_", "h", "o", "w">>)
  @@ ("swe_lun_eclipse_when" :> <<"s", "w", "e", "_", "l", "u", "n", "_", "e", "c", "l", "i", "p", "s", "e", "_", "w", "h", "e", "n">>)
  @@ ("swe_lun_eclipse_when_loc" :> <<"s", "w", "e", "_", "l", "u", "n", "_", "e", "c", "l", "i", "p", "s", "e", "_", "w", "h", "e", "n", "_", "l", "o", "c">>)
  @@ ("swe_lun_occult_when_glob" :> <<"s", "w", "e", "_", "l", "u", "n", "_", "o", "c", "c", "u", "l", "t", "_", "w", "h", "e", "n", "_", "g", "l", "o", "b">>)
  @@ ("swe_lun_occult_when_loc" :> <<"s", "w", "e", "_", "l", "u", "n", "_", "o", "c", "c", "u", "l", "t", "_", "w", "h", "e", "n", "_", "l", "o", "c">>)
  @@ ("swe_lun_occult_where" :> <<"s", "w", "e", "_", "l", "u", "n", "_", "o", "c", "c", "u", "l", "t", "_", "w", "h", "e", "r", "e">>)
  @@ ("swe_mooncross" :> <<"s", "w", "e", "_", "m", "o", "o", "n", "c", "r", "o", "s", "s">>)
  @@ ("swe_mooncross_node" :> <<"s", "w", "e", "_", "m", "o", "o", "n", "c", "r", "o", "s", "s", "_", "n", "o", "d", "e">>)
  @@ ("swe_mooncross_node_ut" :> <<"s", "w", "e", "_", "m", "o", "o", "n", "c", "r", "o", "s", "s", "_", "n", "o", "d", "e", "_", "u", "t">>)
  @@ ("swe_mooncross_ut" :> <<"s", "w", "e", "_", "m", "o", "o", "n", "c", "r", "o", "s", "s", "_", "u", "t">>)
  @@ ("swe_nod_aps" :> <<"s", "w", "e", "_", "n", "o", "d", "_", "a", "p", "s">>)
  @@ ("swe_nod_aps_ut" :> <<"s", "w", "e", "_", "n", "o", "d", "_", "a", "p", "s", "_", "u", "t">>)
  @@ ("swe_orbit_max_min_true_distance" :> <<"s", "w", "e", "_", "o", "r", "b", "i", "t", "_", "m", "a", "x", "_", "m", "i", "n", "_", "t", "r", "u", "e", "_", "d", "i", "s", "t", "a", "n", "c", "e">>)
  @@ ("swe_pheno" :> <<"s", "w", "e", "_", "p", "h", "e", "n", "o">>)
  @@ ("swe_pheno_ut" :> <<"s", "w", "e", "_", "p", "h", "e", "n", "o", "_", "u", "t">>)
  @@ ("swe_rad_midp" :> <<"s", "w", "e", "_", "r", "a", "d", "_", "m", "i", "d", "p">>)
  @@ ("swe_radnorm" :> <<"s", "w", "e", "_", "r", "a", "d", "n", "o", "r", "m">>)
  @@ ("swe_refrac" :> <<"s", "w", "e", "_", "r", "e", "f", "r", "a", "c">>)
  @@ ("swe_refrac_extended" :> <<"s", "w", "e", "_", "r", "e", "f", "r", "a", "c", "_", "e", "x", "t", "e", "n", "d", "e", "d">>)
  @@ ("swe_revjul" :> <<"s", "w", "e", "_", "r", "e", "v", "j", "u", "l">>)
  @@ ("swe_rise_trans" :> <<"s", "w", "e", "_", "r", "i", "s", "e", "_", "t", "r", "a", "n", "s">>)
  @@ ("swe_rise_trans_true_hor" :> <<"s", "w", "e", "_", "r", "i", "s", "e", "_", "t", "r", "a", "n", "s", "_", "t", "r", "u", "e", "_", "h", "o", "r">>)
  @@ ("swe_set_astro_models" :> <<"s", "w", "e", "_", "s", "e", "t", "_", "a", "s", "t", "r", "o", "_", "m", "o", "d", "e", "l", "s">>)
  @@ ("swe_set_delta_t_userdef" :> <<"s", "w", "e", "_", "s", "e", "t", "_", "d", "e", "l", "t", "a", "_", "t", "_", "u", "s", "e", "r", "d", "e", "f">>)
  @@ ("swe_set_ephe_path" :> <<"s", "w", "e", "_", "s", "e", "t", "_", "e", "p", "h", "e", "_", "p", "a", "t", "h">>)
  @@ ("swe_set_interpolate_nut" :> <<"s", "w", "e", "_", "s", "e", "t", "_", "i", "n", "t", "e", "r", "p", "o", "l", "a", "t", "e", "_", "n", "u", "t">>)
  @@ ("swe_set_jpl_file" :> <<"s", "w", "e", "_", "s", "e", "t", "_", "j", "p", "l", "_", "f", "i", "l", "e">>)
  @@ ("swe_set_lapse_rate" :> <<"s", "w", "e", "_", "s", "e", "t", "_", "l", "a", "p", "s", "e", "_", "r", "a", "t", "e">>)
  @@ ("swe_set_sid_mode" :> <<"s", "w", "e", "_", "s", "e", "t", "_", "s", "i", "d", "_", "m", "o", "d", "e">>)
  @@ ("swe_set_tid_acc" :> <<"s", "w", "e", "_", "s", "e", "t", "_", "t", "i", "d", "_", "a", "c", "c">>)
  @@ ("swe_set_timeout" :> <<"s", "w", "e", "_", "s", "e", "t", "_", "t", "i", "m", "e", "o", "u", "t">>)
  @@ ("swe_set_topo" :> <<"s", "w", "e", "_", "s", "e", "t", "_", "t", "o", "p", "o">>)
  @@ ("swe_sidtime" :> <<"s", "w", "e", "_", "s", "i", "d", "t", "i", "m", "e">>)
  @@ ("swe_sidtime0" :> <<"s", "w", "e", "_", "s", "i", "d", "t", "i", "m", "e", "0">>)
  @@ ("swe_sol_eclipse_how" :> <<"s", "w", "e", "_", "s", "o", "l", "_", "e", "c", "l", "i", "p", "s", "e", "_", "h", "o", "w">>)
  @@ ("swe_sol_eclipse_when_glob" :> <<"s", "w", "e", "_", "s", "o", "l", "_", "e", "c", "l", "i", "p", "s", "e", "_", "w", "h", "e", "n", "_", "g", "l", "o", "b">>)
  @@ ("swe_sol_eclipse_when_loc" :> <<"s", "w", "e", "_", "s", "o", "l", "_", "e", "c", "l", "i", "p", "s", "e", "_", "w", "h", "e", "n", "_", "l", "o", "c">>)
  @@ ("swe_sol_eclipse_where" :> <<"s", "w", "e", "_", "s", "o", "l", "_", "e", "c", "l", "i", "p", "s", "e", "_", "w", "h", "e", "r", "e">>)
  @@ ("swe_solcross" :> <<"s", "w", "e", "_", "s", "o", "l", "c", "r", "o", "s", "s">>)
  @@ ("swe_solcross_ut" :> <<"s", "w", "e", "_", "s", "o", "l", "c", "r", "o", "s", "s", "_", "u", "t">>)
  @@ ("swe_split_deg" :> <<"s", "w", "e", "_", "s", "p", "l", "i", "t", "_", "d", "e", "g">>)
  @@ ("swe_time_equ" :> <<"s", "w", "e", "_", "t", "i", "m", "e", "_", "e", "q", "u">>)
  @@ ("swe_topo_arcus_visionis" :> <<"s", "w", "e", "_", "t", "o", "p", "o", "_", "a", "r", "c", "u", "s", "_", "v", "i", "s", "i", "o", "n", "i", "s">>)
  @@ ("swe_utc_time_zone" :> <<"s", "w", "e", "_", "u", "t", "c", "_", "t", "i", "m", "e", "_", "z", "o", "n", "e">>)
  @@ ("swe_utc_to_jd" :> <<"s", "w", "e", "_", "u", "t", "c", "_", "t", "o", "_", "j", "d">>)
  @@ ("swe_version" :> <<"s", "w", "e", "_", "v", "e", "r", "s", "i", "o", "n">>)
  @@ ("swe_vis_limit_mag" :> <<"s", "w", "e", "_", "v", "i", "s", "_", "l", "i", "m", "i", "t", "_", "m", "a", "g">>)
  @@ ("t0" :> <<"t", "0">>)
  @@ ("t_acc" :> <<"t", "_", "a", "c", "c">>)

Chars12 ==
  ("t_ut" :> <<"t", "_", "u", "t">>)
  @@ ("te" :> <<"t", "e">>)
  @@ ("time_equ" :> <<"t", "i", "m", "e", "_", "e", "q", "u">>)
  @@ ("tjd" :> <<"t", "j", "d">>)
  @@ ("tjd_et" :> <<"t", "j", "d", "_", "e", "t">>)
  @@ ("tjd_lat" :> <<"t", "j", "d", "_", "l", "a", "t">>)
  @@ ("tjd_lmt" :> <<"t", "j", "d", "_", "l", "m", "t">>)
  @@ ("tjd_start" :> <<"t", "j", "d", "_", "s", "t", "a", "r", "t">>)
  @@ ("tjd_ut" :> <<"t", "j", "d", "_", "u", "t">>)
  @@ ("tjdstart_ut" :> <<"t", "j", "d", "s", "t", "a", "r", "t", "_", "u", "t">>)
  @@ ("tjdut" :> <<"t", "j", "d", "u", "t">>)
  @@ ("topoArcusVisionis" :> <<"t", "o", "p", "o", "A", "r", "c", "u", "s", "V", "i", "s", "i", "o", "n", "i", "s">>)
  @@ ("tret" :> <<"t", "r", "e", "t">>)
  @@ ("utc" :> <<"u", "t", "c">>)
  @@ ("utcTimeZone" :> <<"u", "t", "c", "T", "i", "m", "e", "Z", "o", "n", "e">>)
  @@ ("utcToJd" :> <<"u", "t", "c", "T", "o", "J", "d">>)
  @@ ("utime" :> <<"u", "t", "i", "m", "e">>)
  @@ ("vis_limit" :> <<"v", "i", "s", "_", "l", "i", "m", "i", "t">>)
  @@ ("visibilityLimitMagnitude" :> <<"v", "i", "s", "i", "b", "i", "l", "i", "t", "y", "L", "i", "m", "i", "t", "M", "a", "g", "n", "i", "t", "u", "d", "e">>)
  @@ ("void" :> <<"v", "o", "i", "d">>)
  @@ ("x" :> <<"x">>)
  @@ ("x0" :> <<"x", "0">>)
  @@ ("x1" :> <<"x", "1">>)
  @@ ("x2cross" :> <<"x", "2", "c", "r", "o", "s", "s">>)
  @@ ("xaphe" :> <<"x", "a", "p", "h", "e">>)
  @@ ("xaz" :> <<"x", "a", "z">>)
  @@ ("xin" :> <<"x", "i", "n">>)
  @@ ("xlat" :> <<"x", "l", "a", "t">>)
  @@ ("xlon" :> <<"x", "l", "o", "n">>)
  @@ ("xnasc" :> <<"x", "n", "a", "s", "c">>)
  @@ ("xndsc" :> <<"x", "n", "d", "s", "c">>)
  @@ ("xout" :> <<"x", "o", "u", "t">>)
  @@ ("xperi" :> <<"x", "p", "e", "r", "i">>)
  @@ ("xpin" :> <<"x", "p", "i", "n">>)
  @@ ("xpn" :> <<"x", "p", "n">>)
  @@ ("xpo" :> <<"x", "p", "o">>)
  @@ ("xx" :> <<"x", "x">>)
  @@ ("xxret" :> <<"x", "x", "r", "e", "t">>)
  @@ ("y" :> <<"y">>)
  @@ ("year" :> <<"y", "e", "a", "r">>)
  @@ ("}" :> <<"}">>)

Chars == Chars1 @@ Chars2 @@ Chars3 @@ Chars4 @@ Chars5 @@ Chars6 @@ Chars7 @@ Chars8 @@ Chars9 @@ Chars10 @@ Chars11 @@ Chars12


(***************************************************************************)
(* Text.  T(s) is the sequence of characters of the literal s.             *)
(***************************************************************************)
T(s) == Chars[s]

\* s.startsWith(p)
startsWith(s, p) == Len(s) >= Len(p) /\ SubSeq(s, 1, Len(p)) = p

\* s.includes(p), and an unanchored regular expression made of one literal
includes(s, p) ==
  \E i \in 1..(Len(s) - Len(p) + 1) : SubSeq(s, i, i + Len(p) - 1) = p

\* s.match(/a|b|c/): some alternative occurs in s
matchAny(s, alts) == \E a \in alts : includes(s, T(a))

\* s.match(/^SE_(a|b|c)$/): s is SE_ followed by exactly one alternative
matchSE(s, alts) == \E a \in alts : s = T("SE_") \o T(a)

\* character classes of the regular expressions
Upper ==
  {"A", "B", "C", "D", "E", "F", "G", "H", "I", "J", "K", "L", "M",
   "N", "O", "P", "Q", "R", "S", "T", "U", "V", "W", "X", "Y", "Z"}
Lower ==
  {"a", "b", "c", "d", "e", "f", "g", "h", "i", "j", "k", "l", "m",
   "n", "o", "p", "q", "r", "s", "t", "u", "v", "w", "x", "y", "z"}
Digit == {"0", "1", "2", "3", "4", "5", "6", "7", "8", "9"}
Space == {" ", "\t", "\n", "\r"}
\* \w
WordChar == Upper \cup Lower \cup Digit \cup {"_"}
\* [A-Z0-9_]
IdChar == Upper \cup Digit \cup {"_"}

\* every character of s is in class
AllIn(s, class) == \A i \in DOMAIN s : s[i] \in class

\* s.slice(1, -1)
Inner(s) == SubSeq(s, 2, Len(s) - 1)

\* "(" + s + ")"
Parens(s) == <<"(">> \o s \o <<")">>

unconfiguredFunction ==
  [name |-> "swe_example", returnType |-> "number", params |-> <<"x", "hsys">>]

functions == headerFunctions \o <<unconfiguredFunction>>

(***************************************************************************)
(* Wrapper synthesizer: generateWrapperFunction and its helpers.  The      *)
(* emitted text is represented by the plan it encodes.                     *)
(***************************************************************************)

\* functionConfig[fn.name] || { friendlyName: fn.name.replace("swe_", "") }
configOf(fn) ==
  IF fn.name \in DOMAIN functionConfig
    THEN functionConfig[fn.name]
    ELSE [friendlyName |-> Null, outputs |-> <<>>, inputStrings |-> <<>>,
          returnType |-> Null, resultType |-> Null, skip |-> FALSE]

\* config.returnType || "number"
returnTypeOf(config) ==
  IF config.returnType = Null THEN "number" ELSE config.returnType

\* a size that ignores the element count of an array
getOutputSizeOfOneElement(type) ==
  IF type.type \in {"string", "error"} THEN type.size
  ELSE IF type.type \in {"int32", "int32[]"} THEN 4 ELSE 8

getOutputSize(type) ==
  CASE type.type = "float64"   -> 8
    [] type.type = "float64[]" -> type.count * 8
    [] type.type = "int32"     -> 4
    [] type.type = "int32[]"   -> type.count * 4
    [] type.type = "string"    -> type.size
    [] type.type = "error"     -> type.size
    [] OTHER                   -> 8

\* outputReads.filter(o => o.type.type !== "error")
nonErrorOutputs(outputReads) ==
  SelectSeq(outputReads, LAMBDA o : o.type.type # "error")

\* outputReads.find(o => names.includes(o.param)), as the parameter found
findOutput(outputReads, names) ==
  LET S == {i \in DOMAIN outputReads : outputReads[i].param \in names}
  IN  IF S = {} THEN Null ELSE outputReads[Min(S)].param

ReadOf(var, elem, count) == [var |-> var, elem |-> elem, count |-> count]

\* one scalar read per non-error output: getInt32 for int32, getFloat64 otherwise
componentReads(outs) ==
  [i \in DOMAIN outs |->
     ReadOf(outs[i].param, IF outs[i].type.type = "int32" THEN "int32" ELSE "float64", 1)]

\* the generic field-per-output object: int32[] outputs get no field
objectReads(outs) ==
  LET kept == SelectSeq(outs, LAMBDA o : o.type.type \in {"float64", "int32", "string", "float64[]"})
  IN  [i \in DOMAIN kept |->
         CASE kept[i].type.type = "float64"   -> ReadOf(kept[i].param, "float64", 1)
           [] kept[i].type.type = "int32"     -> ReadOf(kept[i].param, "int32", 1)
           [] kept[i].type.type = "string"    -> ReadOf(kept[i].param, "string", 1)
           [] kept[i].type.type = "float64[]" -> ReadOf(kept[i].param, "float64", kept[i].type.count)]

singleReads(o) ==
  CASE o.type.type = "float64"   -> <<ReadOf(o.param, "float64", 1)>>
    [] o.type.type = "int32"     -> <<ReadOf(o.param, "int32", 1)>>
    [] o.type.type = "string"    -> <<ReadOf(o.param, "string", 1)>>
    [] o.type.type = "float64[]" -> <<ReadOf(o.param, "float64", o.type.count)>>
    [] o.type.type = "int32[]"   -> <<ReadOf(o.param, "int32", o.type.count)>>
    [] OTHER                -> <<>>

\* buildReturnValue: the statement emitted after the call, with the buffer
\* reads it performs.  stmt is "none" (nothing emitted), "ret" (return ret;)
\* or "value" (a value built from the buffers).
buildReturnValue(outputReads, config, returnType) ==
  LET outs  == nonErrorOutputs(outputReads)
      rt    == config.resultType
      xx    == findOutput(outputReads, {"xx", "xxret"})
      cusps == findOutput(outputReads, {"cusps"})
      ascmc == findOutput(outputReads, {"ascmc"})
      cspd  == findOutput(outputReads, {"cusp_speed"})
      aspd  == findOutput(outputReads, {"ascmc_speed"})
      dret  == findOutput(outputReads, {"dret"})
      xaz   == findOutput(outputReads, {"xaz"})
      attr  == findOutput(outputReads, {"attr"})
      tret  == findOutput(outputReads, {"tret"})
      geo   == findOutput(outputReads, {"geopos"})
      Value(shape, reads) == [stmt |-> "value", shape |-> shape, reads |-> reads]
  IN  IF Len(outs) = 0
        THEN [stmt |-> IF returnType # "void" THEN "ret" ELSE "none",
              shape |-> Null, reads |-> <<>>]
      ELSE IF rt = "PlanetPosition" /\ xx # Null
        THEN Value(rt, <<ReadOf(xx, "float64", 6)>>)
      ELSE IF rt \in {"DateComponents", "UtcComponents", "SplitDegrees"}
        THEN Value(rt, componentReads(outs))
      ELSE IF rt = "HouseResult" /\ cusps # Null /\ ascmc # Null
        THEN Value(rt, <<ReadOf(cusps, "float64", 13), ReadOf(ascmc, "float64", 10)>>)
      ELSE IF rt = "HouseResultWithSpeed" /\ cusps # Null /\ ascmc # Null
        THEN Value(rt, <<ReadOf(cusps, "float64", 13), ReadOf(ascmc, "float64", 10)>>
                       \o (IF cspd # Null THEN <<ReadOf(cspd, "float64", 13)>> ELSE <<>>)
                       \o (IF aspd # Null THEN <<ReadOf(aspd, "float64", 10)>> ELSE <<>>))
      ELSE IF rt = "JulianDayResult" /\ dret # Null
        THEN Value(rt, <<ReadOf(dret, "float64", 2)>>)
      ELSE IF rt = "AzimuthAltitude" /\ xaz # Null
        THEN Value(rt, <<ReadOf(xaz, "float64", 3)>>)
      ELSE IF rt = "PhenomenaResult" /\ attr # Null
        THEN Value(rt, <<ReadOf(attr, "float64", 20)>>)
      ELSE IF rt = "NodesApsidesResult"
        THEN Value(rt, <<ReadOf("xnasc", "float64", 6), ReadOf("xndsc", "float64", 6),
                         ReadOf("xperi", "float64", 6), ReadOf("xaphe", "float64", 6)>>)
      ELSE IF rt = "OrbitalElements" /\ dret # Null
        THEN Value(rt, <<ReadOf(dret, "float64", 50)>>)
      ELSE IF rt = "EclipseTimeResult" /\ tret # Null
        THEN Value(rt, <<ReadOf(tret, "float64", 10)>>
                       \o (IF attr # Null THEN <<ReadOf(attr, "float64", 20)>> ELSE <<>>))
      ELSE IF rt = "EclipseWhereResult" /\ geo # Null /\ attr # Null
        THEN Value(rt, <<ReadOf(geo, "float64", 10), ReadOf(attr, "float64", 20)>>)
      ELSE IF rt = "EclipseAttributes" /\ attr # Null
        THEN Value(rt, <<ReadOf(attr, "float64", 20)>>)
      ELSE IF Len(outs) = 1
        THEN Value("single", singleReads(outs[1]))
      ELSE Value("object", objectReads(outs))

(***************************************************************************)
(* The value the return statement of buildReturnValue builds.  A number    *)
(* read from a buffer is identified by the buffer and the element it was   *)
(* read from, so a dropped, duplicated or reordered element shows.         *)
(***************************************************************************)

\* the number the native routine left at element i (counted from 0) of the
\* buffer allocated for parameter var
element(var, i) == [buf |-> var, at |-> i]

\* mem.getFloat64Array(ptr, count): the elements at ptr + i * 8, i < count
getFloat64Array(var, count) == [k \in 1..count |-> element(var, k - 1)]

\* arr.slice(start)
slice(arr, start) == SubSeq(arr, start + 1, Len(arr))

\* one property of the returned object: its name, what it holds ("number",
\* "array", "string" or "position") and the elements it is read from
Field(name, kind, value) == [name |-> name, kind |-> kind, value |-> value]

\* `name: arr[i],`
indexed(name, arr, i) == Field(name, "number", <<arr[i + 1]>>)

\* a PlanetPosition literal with two properties exchanged
planetPositionSwapped(xx) ==
  <<indexed("longitude", xx, 0), indexed("latitude", xx, 1),
    indexed("distance", xx, 2), indexed("longitudeSpeed", xx, 4),
    indexed("latitudeSpeed", xx, 3), indexed("distanceSpeed", xx, 5)>>

\* the object literal of the PlanetPosition branch
planetPosition(xx) ==
  <<indexed("longitude", xx, 0), indexed("latitude", xx, 1),
    indexed("distance", xx, 2), indexed("longitudeSpeed", xx, 3),
    indexed("latitudeSpeed", xx, 4), indexed("distanceSpeed", xx, 5)>>

\* the eight angle properties both house branches emit
houseAngles(ascmc) ==
  <<indexed("ascendant", ascmc, 0), indexed("mc", ascmc, 1),
    indexed("armc", ascmc, 2), indexed("vertex", ascmc, 3),
    indexed("equatorialAscendant", ascmc, 4), indexed("coAscendantKoch", ascmc, 5),
    indexed("coAscendantMunkasey", ascmc, 6), indexed("polarAscendant", ascmc, 7)>>

\* a cusp list that keeps the unused element 0: cusps.slice(0)
houseCuspsFromZero(name, cusps) == Field(name, "array", slice(cusps, 0))

\* `cusps: cusps.slice(1),` and `cuspSpeeds: cuspSpeeds.slice(1),`
houseCusps(name, cusps) == Field(name, "array", slice(cusps, 1))

\* the object literal of the HouseResult branch
houseResult(cusps, ascmc) == <<houseCusps("cusps", cusps)>> \o houseAngles(ascmc)

\* the object literal of the HouseResultWithSpeed branch; reads holds the
\* buffers read, the speed buffers only when configured
houseResultWithSpeed(reads) ==
  <<houseCusps("cusps", getFloat64Array(reads[1].var, reads[1].count))>>
  \o houseAngles(getFloat64Array(reads[2].var, reads[2].count))
  \o [i \in 1..(Len(reads) - 2) |->
        LET r == reads[i + 2]
        IN  IF r.var = "cusp_speed"
              THEN houseCusps("cuspSpeeds", getFloat64Array(r.var, r.count))
              ELSE Field("ascmcSpeeds", "array", getFloat64Array(r.var, r.count))]

\* (o.type as any).name || o.param
propName(o) == IF o.type.name # Null THEN o.type.name ELSE o.param

\* the loop of the DateComponents, UtcComponents and SplitDegrees branches
componentFields(outs) ==
  [i \in DOMAIN outs |-> Field(propName(outs[i]), "number", <<element(outs[i].param, 0)>>)]

\* the loop of the generic object branch: int32[] outputs get no property
objectFields(outs) ==
  LET kept == SelectSeq(outs, LAMBDA o : o.type.type \in {"float64", "int32", "string", "float64[]"})
  IN  [i \in DOMAIN kept |->
         CASE kept[i].type.type = "float64[]" ->
                Field(propName(kept[i]), "array", getFloat64Array(kept[i].param, kept[i].type.count))
           [] kept[i].type.type = "string" ->
                Field(propName(kept[i]), "string", <<element(kept[i].param, 0)>>)
           [] OTHER ->
                Field(propName(kept[i]), "number", <<element(kept[i].param, 0)>>)]

\* the return statement of the single-output branch
singleField(o) ==
  CASE o.type.type \in {"float64", "int32"} -> <<Field("", "number", <<element(o.param, 0)>>)>>
    [] o.type.type = "string"               -> <<Field("", "string", <<element(o.param, 0)>>)>>
    [] o.type.type \in {"float64[]", "int32[]"} ->
         <<Field("", "array", getFloat64Array(o.param, o.type.count))>>
    [] OTHER -> <<>>

\* every read of the return code as a whole-array property
arrayFields(names, reads) ==
  [i \in DOMAIN reads |-> Field(names[i], "array", getFloat64Array(reads[i].var, reads[i].count))]

\* the properties of the object (or the one value) the return code builds
returnFields(outputReads, code) ==
  LET outs  == nonErrorOutputs(outputReads)
      reads == code.reads
      arr(i) == getFloat64Array(reads[i].var, reads[i].count)
  IN  CASE code.stmt # "value" -> <<>>
        [] code.shape = "PlanetPosition" -> planetPosition(arr(1))
        [] code.shape \in {"DateComponents", "UtcComponents", "SplitDegrees"} ->
             componentFields(outs)
        [] code.shape = "HouseResult" -> houseResult(arr(1), arr(2))
        [] code.shape = "HouseResultWithSpeed" -> houseResultWithSpeed(reads)
        [] code.shape = "JulianDayResult" ->
             <<indexed("et", arr(1), 0), indexed("ut", arr(1), 1)>>
        [] code.shape = "AzimuthAltitude" ->
             <<indexed("azimuth", arr(1), 0), indexed("trueAltitude", arr(1), 1),
               indexed("apparentAltitude", arr(1), 2)>>
        [] code.shape = "PhenomenaResult" ->
             <<indexed("phaseAngle", arr(1), 0), indexed("phase", arr(1), 1),
               indexed("elongation", arr(1), 2), indexed("apparentDiameter", arr(1), 3),
               indexed("apparentMagnitude", arr(1), 4)>>
        [] code.shape = "NodesApsidesResult" ->
             <<Field("ascendingNode", "position", arr(1)),
               Field("descendingNode", "position", arr(2)),
               Field("perihelion", "position", arr(3)),
               Field("aphelion", "position", arr(4))>>
        [] code.shape = "OrbitalElements" -> arrayFields(<<"elements">>, reads)
        [] code.shape = "EclipseTimeResult" -> arrayFields(<<"times", "attributes">>, reads)
        [] code.shape = "EclipseWhereResult" -> arrayFields(<<"geopos", "attributes">>, reads)
        [] code.shape = "EclipseAttributes" -> arrayFields(<<"attributes">>, reads)
        [] code.shape = "single" -> singleField(outs[1])
        [] OTHER -> objectFields(outs)

\* no value yet, and the value of a wrapper that ends without a return
NoResult == [kind |-> "none", ret |-> 0, fields |-> <<>>]
Undefined == [kind |-> "undefined", ret |-> 0, fields |-> <<>>]

\* what the wrapper returns when the native routine returned ret
returnValue(outputReads, code, ret) ==
  CASE code.stmt = "none" -> Undefined
    [] code.stmt = "ret"  -> [kind |-> "ret", ret |-> ret, fields |-> <<>>]
    [] OTHER -> [kind |-> code.shape, ret |-> 0,
                 fields |-> returnFields(outputReads, code)]

\* s.replace(pat, by) with a string pattern: the first occurrence only
replace(s, pat, by) ==
  LET at == {i \in 1..(Len(s) - Len(pat) + 1) : SubSeq(s, i, i + Len(pat) - 1) = pat}
  IN  IF at = {} THEN s
      ELSE SubSeq(s, 1, Min(at) - 1) \o by \o SubSeq(s, Min(at) + Len(pat), Len(s))

\* a friendly name that keeps the native name
friendlyNameKeepsPrefix(fn, config) ==
  IF config.friendlyName # Null THEN T(config.friendlyName) ELSE T(fn.name)

\* config.friendlyName || fn.name.replace("swe_", "")
friendlyNameOf(fn, config) ==
  IF config.friendlyName # Null THEN T(config.friendlyName)
  ELSE replace(T(fn.name), T("swe_"), <<>>)

\* Object.keys(outputs): the parameters with an allocated output buffer
outputNames(config) == {config.outputs[i].param : i \in DOMAIN config.outputs}

\* fn.params.filter(p => !outputs[p.name])
inputParams(fn, config) == SelectSeq(fn.params, LAMBDA p : p \notin outputNames(config))

\* the parameter list of buildSignature: one entry per input parameter
buildSignature(params, inputStrings) ==
  [i \in DOMAIN params |->
     [name |-> params[i],
      type |-> IF params[i] \in Range(inputStrings) THEN "string"
               ELSE IF params[i] = "hsys" THEN "number | string"
               ELSE "number"]]

\* a TypeScript type as the generator writes it: a type name ("number",
\* "void", "PlanetPosition", ...) or an object type `{ a: t; b: u }`
TypeName(name) == [kind |-> "name", name |-> name, fields |-> <<>>]

ObjectType(fields) == [kind |-> "object", name |-> "", fields |-> fields]

\* type.type.includes("[]") ? "number[]" : type.type === "string" ? "string" : "number"
tsType(type) ==
  IF type.type \in {"float64[]", "int32[]"} THEN "number[]"
  ELSE IF type.type = "string" THEN "string"
  ELSE "number"

\* inferResultType
inferResultType(config, outputs) ==
  LET outputEntries == SelectSeq(outputs, LAMBDA o : o.type.type # "error")
  IN  IF config.resultType # Null THEN TypeName(config.resultType)
      ELSE IF Len(outputEntries) = 1
              /\ outputEntries[1].type.type \in
                   {"float64", "int32", "string", "float64[]", "int32[]"}
        THEN TypeName(tsType(outputEntries[1].type))
      ELSE ObjectType([i \in DOMAIN outputEntries |->
                         [name |-> propName(outputEntries[i]),
                          type |-> tsType(outputEntries[i].type)]])

\* the result type of buildSignature
signatureResultType(config, returnType, outputs) ==
  IF returnType = "number"
    THEN IF Len(outputs) = 0 THEN TypeName("number")
         ELSE inferResultType(config, outputs)
  ELSE IF returnType \in {"check-negative", "check-error"}
    THEN inferResultType(config, outputs)
  ELSE IF returnType = "void" /\ Len(outputs) > 0
    THEN inferResultType(config, outputs)
  ELSE TypeName("void")

\* call arguments that pass hsys as the caller gave it
callArgsNoConversion(fn, config) ==
  [i \in DOMAIN fn.params |->
     [name |-> fn.params[i],
      pass |-> IF fn.params[i] \in outputNames(config) THEN "pointer"
               ELSE IF fn.params[i] \in Range(config.inputStrings) THEN "pointer"
               ELSE "value"]]

\* call arguments in reverse order
callArgsReversed(fn, config) ==
  [i \in DOMAIN fn.params |->
     LET p == fn.params[Len(fn.params) + 1 - i]
     IN [name |-> p,
         pass |-> IF p \in outputNames(config) THEN "pointer"
                  ELSE IF p \in Range(config.inputStrings) THEN "pointer"
                  ELSE IF p = "hsys" THEN "hsys"
                  ELSE "value"]]

\* fn.params.map(...): for every declared parameter what the call passes,
\* the pointer variable `${p.name}Ptr`, the converted hsys, or the parameter
callArgs(fn, config) ==
  [i \in DOMAIN fn.params |->
     [name |-> fn.params[i],
      pass |-> IF fn.params[i] \in outputNames(config) THEN "pointer"
               ELSE IF fn.params[i] \in Range(config.inputStrings) THEN "pointer"
               ELSE IF fn.params[i] = "hsys" THEN "hsys"
               ELSE "value"]]


\* a finally block that releases every pointer twice
freeStatementsTwice(outputs, inputStrings) ==
  [i \in DOMAIN outputs |-> outputs[i].param] \o inputStrings
  \o [i \in DOMAIN outputs |-> outputs[i].param] \o inputStrings

\* the raw.free statements of the finally block: one per output, then one
\* per input string
freeStatements(outputs, inputStrings) ==
  [i \in DOMAIN outputs |-> outputs[i].param] \o inputStrings

\* a generator that emits the check for every return mode
checksEveryReturnValue(returnType) == TRUE

\* returnType === "check-negative" || returnType === "check-error"
checksReturnValue(returnType) == returnType \in {"check-negative", "check-error"}

\* generateWrapperFunction: the plan of the wrapper emitted for fn.
\*   allocations  the statements before the try, in order: outputs first
\*                (raw.malloc of getOutputSize), then inputStrings (mem.allocString)
\*   frees        the raw.free statements of the finally block, in order
\*   hasTry       a try/finally is emitted only when something is allocated
\*   assignsRet   "const ret = raw.f(...)" rather than "raw.f(...)"
\*   errorCheck   the error buffer read by "if (ret < 0) {...}", or Null when
\*                no check is emitted
\*   friendlyName the property name the wrapper is emitted under
\*   signature    the public parameters, in order
\*   callArgs     the arguments of the native call, in order
\*   resultType   the result type the signature declares
generateWrapperFunction(fn, config) ==
  LET outputs      == config.outputs
      inputStrings == config.inputStrings
      returnType   == returnTypeOf(config)
      outputReads  == outputs
      allocations  ==
        [i \in DOMAIN outputs |->
           [var |-> outputs[i].param, by |-> "raw.malloc",
            size |-> getOutputSize(outputs[i].type)]]
        \o
        [i \in DOMAIN inputStrings |->
           [var |-> inputStrings[i], by |-> "mem.allocString", size |-> 0]]
      frees        == freeStatements(outputs, inputStrings)
      errorRead    ==
        LET S == {i \in DOMAIN outputReads : outputReads[i].type.type = "error"}
        IN  IF S = {} THEN Null ELSE outputReads[Min(S)].param
  IN  [friendlyName |-> friendlyNameOf(fn, config),
       signature   |-> buildSignature(inputParams(fn, config), inputStrings),
       callArgs    |-> callArgs(fn, config),
       resultType  |-> signatureResultType(config, returnType, outputs),
       allocations |-> allocations,
       frees       |-> frees,
       hasTry      |-> Len(allocations) > 0,
       assignsRet  |-> returnType # "void",
       errorCheck  |-> IF checksReturnValue(returnType) THEN errorRead ELSE Null,
       returnCode  |-> buildReturnValue(outputReads, config, returnType)]

\* the wrapper under invocation
Plan == generateWrapperFunction(wfn, configOf(wfn))

(***************************************************************************)
(* Memory helpers (helpers.ts).  Bytes are numbers; decoded text is a      *)
(* sequence of characters.                                                 *)
(***************************************************************************)

\* the characters of the bytes the model's native routine writes
CharOf == (65 :> "A") @@ (66 :> "B")

\* new TextDecoder().decode(bytes)
decode(bytes) == [i \in DOMAIN bytes |-> CharOf[bytes[i]]]

\* getString(ptr) on the bytes found from ptr on: scan to the first zero byte
\* and decode what precedes it
RECURSIVE scanEnd(_, _)
scanEnd(m, end) == IF m[end] # 0 THEN scanEnd(m, end + 1) ELSE end

getString(m) == decode(SubSeq(m, 1, scanEnd(m, 1) - 1))

\* the message the generated check falls back to
FallbackMsg ==
  <<"S", "w", "i", "s", "s", " ", "E", "p", "h", "e", "m", "e", "r", "i", "s",
    " ", "e", "r", "r", "o", "r">>

\* a check that forgets the fallback: throw new Error(errMsg)
checkMessageNoFallback(msg) == msg

\* throw new Error(errMsg || "Swiss Ephemeris error")
checkMessage(msg) == IF msg = <<>> THEN FallbackMsg ELSE msg

(***************************************************************************)
(* Bounds and input sets of the wrapper invocation                         *)
(***************************************************************************)

\* bytes of the error buffer the model distinguishes (a zero terminator follows)
MaxErrLen == 2

ErrByte == {0, 65, 66}

\* native return values: error codes and successes
RetVals == {-2, -1, 0, 1}

ErrContents == [1..MaxErrLen -> ErrByte]

\* the wrappers generateFriendlyWrappers emits: every declaration not skipped
WrappedFunctions == {f \in Range(functions) : ~configOf(f).skip}

hasErrorOutput(config) ==
  \E i \in DOMAIN config.outputs : config.outputs[i].type.type = "error"

\* a JavaScript value handed to or by a wrapper: a string, a number, or the
\* address held by the pointer variable of a parameter
Str(s) == [t |-> "string", s |-> s, n |-> 0]
Num(n) == [t |-> "number", s |-> "", n |-> n]
Ptr(param) == [t |-> "pointer", s |-> param, n |-> 0]

\* "W".charCodeAt(0), "P".charCodeAt(0)
CharCode == ("W" :> 87) @@ ("P" :> 80)

\* s.charCodeAt(0) of a one-character string
charCodeAt(s) == CharCode[s]

\* what a caller passes for hsys: a house system letter or its code
HsysValues == {Str(c) : c \in DOMAIN CharCode} \cup {Num(CharCode[c]) : c \in DOMAIN CharCode}

\* the position of a parameter in the declaration
position(fn, name) == Min({i \in DOMAIN fn.params : fn.params[i] = name})

\* the calls of the wrapper of fn the model makes: text for an input string,
\* every hsys value, and for any other parameter a number that tells the
\* parameters apart
Calls(fn) ==
  LET plan  == generateWrapperFunction(fn, configOf(fn))
      names == {plan.signature[i].name : i \in DOMAIN plan.signature}
      typeOf(n) == plan.signature[Min({i \in DOMAIN plan.signature : plan.signature[i].name = n})].type
  IN  {[n \in names |->
          IF typeOf(n) = "string" THEN Str(n)
          ELSE IF typeOf(n) = "number | string" THEN h
          ELSE Num(position(fn, n))] : h \in HsysValues}

\* (typeof hsys === "string" ? hsys.charCodeAt(0) : hsys)
hsysArgument(v) == IF v.t = "string" THEN Num(charCodeAt(v.s)) ELSE v

\* the values of the call arguments when the native routine is called
argumentValues(plan, a) ==
  [i \in DOMAIN plan.callArgs |->
     CASE plan.callArgs[i].pass = "pointer" -> Ptr(plan.callArgs[i].name)
       [] plan.callArgs[i].pass = "hsys"    -> hsysArgument(a[plan.callArgs[i].name])
       [] OTHER                             -> a[plan.callArgs[i].name]]

(***************************************************************************)
(* One invocation of a synthesized wrapper                                 *)
(***************************************************************************)

WrapperIdle ==
  /\ wfn = Null /\ pc = "idle" /\ nAlloc = 0 /\ allocLog = <<>> /\ freeLog = <<>>
  /\ called = FALSE /\ nativeRet = 0 /\ errBytes = <<>> /\ completion = "none"
  /\ outcome = "running" /\ raisedBy = "none" /\ errMsg = <<>> /\ readLog = <<>>
  /\ args = <<>> /\ nativeArgs = <<>> /\ result = NoResult

InitWrapper ==
  /\ wfn \in WrappedFunctions
  /\ pc = "alloc" /\ nAlloc = 0 /\ allocLog = <<>> /\ freeLog = <<>>
  /\ called = FALSE /\ nativeRet = 0 /\ errBytes = <<>> /\ completion = "none"
  /\ outcome = "running" /\ raisedBy = "none" /\ errMsg = <<>> /\ readLog = <<>>
  /\ args \in Calls(wfn) /\ nativeArgs = <<>> /\ result = NoResult
  /\ TopoIdle /\ CatIdle /\ GenIdle /\ ApiIdle /\ FunIdle

\* leaving the body: through the finally block when there is one
Leave(how) ==
  IF Plan.hasTry
    THEN /\ pc' = "finally" /\ completion' = how /\ outcome' = outcome
    ELSE /\ pc' = "done" /\ completion' = how
         /\ outcome' = IF how = "throw" THEN "raised" ELSE "returned"

\* the next allocation statement binds its pointer variable
Alloc ==
  /\ pc = "alloc" /\ nAlloc < Len(Plan.allocations)
  /\ nAlloc' = nAlloc + 1
  /\ allocLog' = Append(allocLog, Plan.allocations[nAlloc + 1].var)
  /\ UNCHANGED <<tvars, cvars, gvars, avars, fvars>>
  /\ UNCHANGED <<wfn, pc, freeLog, called, nativeRet, errBytes, completion,
                 outcome, raisedBy, errMsg, readLog,
                 args, nativeArgs, result>>

\* the next allocation statement raises (raw.malloc traps inside the module;
\* mem.allocString fails to encode its argument or to write it to memory):
\* the statement stands before the try, so the invocation ends here
AllocRaises ==
  /\ pc = "alloc" /\ nAlloc < Len(Plan.allocations)
  /\ pc' = "done" /\ outcome' = "raised" /\ raisedBy' = "alloc"
  /\ UNCHANGED <<tvars, cvars, gvars, avars, fvars>>
  /\ UNCHANGED <<wfn, nAlloc, allocLog, freeLog, called, nativeRet, errBytes,
                 completion, errMsg, readLog,
                 args, nativeArgs, result>>

\* raw.swe_xxx(...) returns; the native routine has filled the error buffer
NativeCall ==
  /\ pc = "alloc" /\ nAlloc = Len(Plan.allocations)
  /\ called' = TRUE
  /\ nativeArgs' = argumentValues(Plan, args)
  /\ nativeRet' \in RetVals
  /\ errBytes' \in IF hasErrorOutput(configOf(wfn)) THEN ErrContents ELSE {<<>>}
  /\ pc' = "check"
  /\ UNCHANGED <<tvars, cvars, gvars, avars, fvars>>
  /\ UNCHANGED <<wfn, nAlloc, allocLog, freeLog, completion, outcome, raisedBy,
                 errMsg, readLog,
                 args, result>>

\* raw.swe_xxx(...) traps inside the module
NativeRaises ==
  /\ pc = "alloc" /\ nAlloc = Len(Plan.allocations)
  /\ called' = TRUE
  /\ nativeArgs' = argumentValues(Plan, args)
  /\ raisedBy' = "native"
  /\ Leave("throw")
  /\ UNCHANGED <<tvars, cvars, gvars, avars, fvars>>
  /\ UNCHANGED <<wfn, nAlloc, allocLog, freeLog, nativeRet, errBytes, errMsg, readLog,
                 args, result>>

\* a check emitted after the statements that read the result buffers
checkReadsAfterResult(plan) ==
  plan.returnCode.reads \o <<ReadOf(plan.errorCheck, "string", 1)>>

\* the buffer reads of the emitted check: mem.getString of the error buffer
checkReads(plan) == <<ReadOf(plan.errorCheck, "string", 1)>>

\* if (ret < 0) { const errMsg = mem.getString(serrPtr); throw new Error(...) }
CheckError ==
  /\ pc = "check"
  /\ IF Plan.errorCheck # Null /\ nativeRet < 0
       THEN /\ errMsg' = checkMessage(getString(errBytes \o <<0>>))
            /\ readLog' = readLog \o checkReads(Plan)
            /\ raisedBy' = "check"
            /\ Leave("throw")
       ELSE /\ pc' = "return"
            /\ UNCHANGED <<errMsg, readLog, raisedBy, completion, outcome>>
  /\ UNCHANGED <<tvars, cvars, gvars, avars, fvars>>
  /\ UNCHANGED <<wfn, nAlloc, allocLog, freeLog, called, nativeRet, errBytes,
                 args, nativeArgs, result>>

\* the statements of buildReturnValue: read the buffers, return
Return ==
  /\ pc = "return"
  /\ readLog' = readLog \o Plan.returnCode.reads
  /\ result' = returnValue(configOf(wfn).outputs, Plan.returnCode, nativeRet)
  /\ Leave("return")
  /\ UNCHANGED <<tvars, cvars, gvars, avars, fvars>>
  /\ UNCHANGED <<wfn, nAlloc, allocLog, freeLog, called, nativeRet, errBytes,
                 raisedBy, errMsg,
                 args, nativeArgs>>

\* the next raw.free of the finally block
Free ==
  /\ pc = "finally" /\ Len(freeLog) < Len(Plan.frees)
  /\ freeLog' = Append(freeLog, Plan.frees[Len(freeLog) + 1])
  /\ UNCHANGED <<tvars, cvars, gvars, avars, fvars>>
  /\ UNCHANGED <<wfn, pc, nAlloc, allocLog, called, nativeRet, errBytes,
                 completion, outcome, raisedBy, errMsg, readLog,
                 args, nativeArgs, result>>

\* the finally block is through: the pending completion takes effect
EndFinally ==
  /\ pc = "finally" /\ Len(freeLog) = Len(Plan.frees)
  /\ pc' = "done"
  /\ outcome' = IF completion = "throw" THEN "raised" ELSE "returned"
  /\ UNCHANGED <<tvars, cvars, gvars, avars, fvars>>
  /\ UNCHANGED <<wfn, nAlloc, allocLog, freeLog, called, nativeRet, errBytes,
                 completion, raisedBy, errMsg, readLog,
                 args, nativeArgs, result>>

NextWrapper ==
  \/ Alloc \/ AllocRaises \/ NativeCall \/ NativeRaises
  \/ CheckError \/ Return \/ Free \/ EndFinally

SpecWrapper == InitWrapper /\ [][NextWrapper]_vars

(***************************************************************************)
(* Claims about one wrapper invocation (checked under SpecWrapper)         *)
(***************************************************************************)

\* C1: when an invocation has returned or raised, the multiset of pointer
\* variables bound by allocation calls (raw.malloc, mem.allocString) equals
\* the multiset passed to raw.free, on the success path and on every failure
\* path.
C1_AllocFreeBalance ==
  pc = "done" => BagOfSeq(allocLog) = BagOfSeq(freeLog)

\* C2: for every routine configured check-negative or check-error, with or
\* without an error-buffer output, a negative native return value makes the
\* wrapper raise instead of returning a result.
C2_NegativeReturnRaises ==
  ( /\ pc = "done" /\ called /\ raisedBy # "native"
    /\ returnTypeOf(configOf(wfn)) \in {"check-negative", "check-error"}
    /\ nativeRet < 0 )
  => outcome = "raised"

\* the text held by the error buffer: the characters of the bytes that
\* precede its first zero byte
ErrBufferText(t) ==
  LET m == errBytes \o <<0>>
      z == Min({i \in DOMAIN m : m[i] = 0})
  IN  /\ Len(t) = z - 1
      /\ \A i \in 1..(z - 1) : t[i] = CharOf[m[i]]

\* C3: for a routine configured check-negative with an error-buffer output, a
\* negative native return value yields a raised failure whose message is the
\* decoded content of the error buffer when that is non-empty, and the fixed
\* message "Swiss Ephemeris error" when it is empty.
C3_ErrorMessageFidelity ==
  ( /\ pc = "done" /\ called /\ raisedBy # "native"
    /\ returnTypeOf(configOf(wfn)) = "check-negative"
    /\ hasErrorOutput(configOf(wfn))
    /\ nativeRet < 0 )
  => /\ outcome = "raised"
     /\ raisedBy = "check"
     /\ IF errBytes[1] = 0
          THEN errMsg = FallbackMsg
          ELSE ErrBufferText(errMsg)

\* C3 witness: swe_calc_ut returned -1 with an empty error string (a zero
\* byte followed by a stale byte) and the wrapper raised the fallback message
C3_Witness ==
  /\ pc = "done" /\ wfn.name = "swe_calc_ut" /\ nativeRet = -1
  /\ errBytes[1] = 0 /\ errBytes[2] = 66
  /\ outcome = "raised" /\ errMsg = FallbackMsg
  /\ BagOfSeq(freeLog) = BagOfSeq(allocLog)

(***************************************************************************)
(* Properties of the returned value, the call and the public signature     *)
(***************************************************************************)

\* the properties of a returned object that carry the given name
FieldsNamed(fields, name) == SelectSeq(fields, LAMBDA f : f.name = name)

\* an allocation statement of the wrapper for parameter var with room for
\* count 8-byte numbers
AllocatesNumbers(var, count) ==
  \E i \in DOMAIN Plan.allocations :
    /\ Plan.allocations[i].var = var
    /\ Plan.allocations[i].by = "raw.malloc"
    /\ Plan.allocations[i].size = count * 8

PositionNames ==
  <<"longitude", "latitude", "distance", "longitudeSpeed", "latitudeSpeed",
    "distanceSpeed">>

\* C11: a wrapper whose configured result shape is PlanetPosition returns an
\* object whose i-th property, in the order longitude, latitude, distance,
\* longitudeSpeed, latitudeSpeed, distanceSpeed, holds element i (i = 0..5)
\* of the six-element xx / xxret buffer: nothing dropped, repeated or
\* reordered.
C11_PlanetPositionFields ==
  (configOf(wfn).resultType = "PlanetPosition" /\ outcome = "returned") =>
    \E b \in {"xx", "xxret"} :
      /\ AllocatesNumbers(b, 6)
      /\ result.fields =
           [i \in 1..6 |-> [name |-> PositionNames[i], kind |-> "number",
                            value |-> <<[buf |-> b, at |-> i - 1]>>]]

\* calc (swe_calc_ut) has returned a position
C11_Witness ==
  /\ wfn.name = "swe_calc_ut" /\ outcome = "returned" /\ nativeRet >= 0
  /\ Len(result.fields) = 6 /\ result.fields[4].name = "longitudeSpeed"

\* C12: a wrapper whose configured result shape is HouseResult or
\* HouseResultWithSpeed reads 13 numbers from a 13-number cusps buffer and
\* returns as cusps exactly the elements 1..12 in order; with speeds,
\* cuspSpeeds holds the elements 1..12 of the cusp_speed buffer and
\* ascmcSpeeds all 10 elements of the ascmc_speed buffer.
C12_HouseCusps ==
  (configOf(wfn).resultType \in {"HouseResult", "HouseResultWithSpeed"}
     /\ outcome = "returned") =>
    /\ AllocatesNumbers("cusps", 13)
    /\ \E i \in DOMAIN readLog :
         readLog[i] = [var |-> "cusps", elem |-> "float64", count |-> 13]
    /\ FieldsNamed(result.fields, "cusps") =
         <<[name |-> "cusps", kind |-> "array",
            value |-> [i \in 1..12 |-> [buf |-> "cusps", at |-> i]]]>>
    /\ configOf(wfn).resultType = "HouseResultWithSpeed" =>
         /\ FieldsNamed(result.fields, "cuspSpeeds") =
              <<[name |-> "cuspSpeeds", kind |-> "array",
                 value |-> [i \in 1..12 |-> [buf |-> "cusp_speed", at |-> i]]]>>
         /\ FieldsNamed(result.fields, "ascmcSpeeds") =
              <<[name |-> "ascmcSpeeds", kind |-> "array",
                 value |-> [i \in 1..10 |-> [buf |-> "ascmc_speed", at |-> i - 1]]]>>

\* housesWithSpeed (swe_houses_ex2) has returned its object
C12_Witness ==
  /\ wfn.name = "swe_houses_ex2" /\ outcome = "returned"
  /\ result.kind = "HouseResultWithSpeed"
  /\ Len(FieldsNamed(result.fields, "cuspSpeeds")) = 1

\* C13: a declared routine the configuration table does not list still gets
\* a wrapper; its friendly name is the native name without the swe_ prefix,
\* its public parameters are the declared parameters in declared order, it
\* allocates and releases nothing, and it returns the native return value.
C13_UnconfiguredRoutine ==
  (wfn.name \notin DOMAIN functionConfig) =>
    /\ wfn \in WrappedFunctions
    /\ <<"s", "w", "e", "_">> \o Plan.friendlyName = T(wfn.name)
    /\ [i \in DOMAIN Plan.signature |-> Plan.signature[i].name] = wfn.params
    /\ Plan.allocations = <<>> /\ allocLog = <<>> /\ freeLog = <<>>
    /\ outcome = "returned" =>
         result = [kind |-> "ret", ret |-> nativeRet, fields |-> <<>>]

\* the wrapper of the unlisted routine has returned a negative native value
C13_Witness ==
  /\ wfn.name \notin DOMAIN functionConfig
  /\ outcome = "returned" /\ nativeRet = -1 /\ result.ret = -1

\* the code a caller's hsys value stands for
HsysCode(v) == IF v.t = "string" THEN CharCode[v.s] ELSE v.n

\* C14: a wrapper with a parameter named hsys passes the character code when
\* called with a one-character string and the number itself when called with
\* a number, so "W" and 87 (and "P" and 80) make the same native call.
C14_HsysConversion ==
  (called /\ "hsys" \in DOMAIN args) =>
    \A i \in DOMAIN wfn.params :
      wfn.params[i] = "hsys" =>
        /\ nativeArgs[i].t = "number"
        /\ nativeArgs[i].n = HsysCode(args["hsys"])
        /\ args["hsys"] \in {Str("W"), Num(87)} => nativeArgs[i] = Num(87)

\* housesSimple (swe_houses) was called with the letter W and the native
\* routine has received 87
C14_Witness ==
  /\ wfn.name = "swe_houses" /\ called
  /\ args["hsys"] = Str("W") /\ nativeArgs[4] = Num(87)

\* C15: the native call passes one argument per declared parameter in
\* declared order: the allocated address for a parameter named in outputs or
\* in inputStrings, the caller's value otherwise (hsys converted); the public
\* signature is the declared parameter list without the output parameters.
C15_CallArguments ==
  LET cfg == configOf(wfn)
  IN  /\ pc # "idle" =>
           [i \in DOMAIN Plan.signature |-> Plan.signature[i].name]
             = SelectSeq(wfn.params, LAMBDA p : p \notin outputNames(cfg))
      /\ called =>
           /\ Len(nativeArgs) = Len(wfn.params)
           /\ \A i \in DOMAIN wfn.params :
                LET p == wfn.params[i]
                IN  IF p \in outputNames(cfg) \/ p \in Range(cfg.inputStrings)
                      THEN nativeArgs[i] = Ptr(p) /\ p \in Range(allocLog)
                    ELSE IF p = "hsys"
                      THEN nativeArgs[i] = Num(HsysCode(args[p]))
                    ELSE nativeArgs[i] = args[p]

\* heliacalRising (swe_heliacal_ut): an input string, two outputs and six
\* plain parameters have been passed
C15_Witness ==
  /\ wfn.name = "swe_heliacal_ut" /\ called
  /\ Len(nativeArgs) = 9 /\ nativeArgs[5] = Ptr("ObjectName")
  /\ nativeArgs[1] = args["tjdstart_ut"]

\* C16: a wrapper whose return mode is void or number never raises because
\* of the native return value: once the native routine has returned, whatever
\* it returned, the wrapper completes by returning.
C16_NoRaiseOnReturnValue ==
  (/\ pc # "idle"
   /\ returnTypeOf(configOf(wfn)) \in {"void", "number"}
   /\ called /\ raisedBy # "native") =>
    /\ raisedBy = "none"
    /\ pc = "done" => outcome = "returned"

\* housesWithSpeed (swe_houses_ex2, return mode number, with an error
\* buffer) has returned although the native routine returned -1
C16_Witness ==
  /\ wfn.name = "swe_houses_ex2" /\ nativeRet = -1
  /\ pc = "done" /\ outcome = "returned"

\* C20: with return mode check-negative or check-error and an error-buffer
\* output, a negative native return makes the wrapper read the error buffer
\* and raise before any other output buffer is read: no result is built.
C20_ErrorBeforeResult ==
  (/\ pc # "idle"
   /\ checksReturnValue(returnTypeOf(configOf(wfn)))
   /\ hasErrorOutput(configOf(wfn))
   /\ called /\ raisedBy # "native" /\ nativeRet < 0
   /\ pc \in {"finally", "done"}) =>
    /\ raisedBy = "check"
    /\ readLog # <<>>
    /\ \A i \in DOMAIN readLog :
         /\ readLog[i].elem = "string"
         /\ \E j \in DOMAIN configOf(wfn).outputs :
              /\ configOf(wfn).outputs[j].param = readLog[i].var
              /\ configOf(wfn).outputs[j].type.type = "error"
    /\ result = NoResult

\* calc (swe_calc_ut) raised on -1 having read only serr
C20_Witness ==
  /\ wfn.name = "swe_calc_ut" /\ nativeRet = -1 /\ outcome = "raised"
  /\ raisedBy = "check" /\ readLog = <<ReadOf("serr", "string", 1)>>

\* C25: when an allocation statement of an invocation raises, the buffers
\* the invocation had allocated before it have been released when the
\* failure reaches the caller.
C25_FailedAllocationReleases ==
  (pc = "done" /\ raisedBy = "alloc") =>
    \A i \in DOMAIN allocLog : \E j \in DOMAIN freeLog : freeLog[j] = allocLog[i]

\* C28: for a routine whose return mode is number and whose configured
\* outputs are all error buffers, the signature declares the result type
\* number, the type of the native return value the wrapper returns.
C28_NumberResultType ==
  (/\ outcome = "returned"
   /\ returnTypeOf(configOf(wfn)) = "number"
   /\ nonErrorOutputs(configOf(wfn).outputs) = <<>>) =>
    /\ result = [kind |-> "ret", ret |-> nativeRet, fields |-> <<>>]
    /\ Plan.resultType = TypeName("number")

\* C26: every read of an allocated buffer (the error message and the result
\* values) takes place after the native call has returned and before any
\* buffer is released; once a buffer is released nothing is read, and no
\* buffer is released twice.
C26_ReadsBeforeRelease ==
  [][ /\ readLog' # readLog =>
           /\ called /\ raisedBy # "native" /\ pc \in {"check", "return"}
           /\ freeLog = <<>> /\ freeLog' = <<>>
           /\ \A i \in DOMAIN readLog' : readLog'[i].var \in Range(allocLog)
      /\ freeLog' # freeLog =>
           /\ readLog' = readLog
           /\ \A i \in DOMAIN freeLog' : \A j \in DOMAIN freeLog' :
                freeLog'[i] = freeLog'[j] => i = j ]_vars

\* housesWithSpeed (swe_houses_ex2) has returned: four buffers were read and
\* five released
C26_Witness ==
  /\ wfn.name = "swe_houses_ex2" /\ outcome = "returned"
  /\ Len(readLog) = 4 /\ Len(freeLog) = 5 /\ Cardinality(Range(freeLog)) = 5

\* the bytes a numeric read covers: count elements of 8 (float64) or 4
\* (int32) bytes
ReadBytes(r) == r.count * (IF r.elem = "int32" THEN 4 ELSE 8)

\* C27: for every entry of the configuration table, each numeric read the
\* wrapper performs on an output buffer after the call lies within the bytes
\* getOutputSize allocated for that buffer.
C27_ReadsWithinAllocation ==
  (pc # "idle" /\ wfn.name \in DOMAIN functionConfig) =>
    \A i \in DOMAIN readLog :
      readLog[i].elem \in {"float64", "int32"} =>
        \E k \in DOMAIN Plan.allocations :
          /\ Plan.allocations[k].var = readLog[i].var
          /\ Plan.allocations[k].by = "raw.malloc"
          /\ ReadBytes(readLog[i]) <= Plan.allocations[k].size

\* orbitalElements (swe_get_orbital_elements) has read the 50 numbers of
\* dret
C27_Witness ==
  /\ wfn.name = "swe_get_orbital_elements" /\ outcome = "returned"
  /\ \E i \in DOMAIN readLog : readLog[i].var = "dret" /\ ReadBytes(readLog[i]) = 400

(***************************************************************************)
(* Category classifier: categorizeConstant and categorizeFunctions         *)
(***************************************************************************)

\* the conditions of categorizeConstant, in the order the code tests them
constantPredicates(name) ==
  <<
    (*  1 *) startsWith(name, T("SE_SIDM_")),
    (*  2 *) startsWith(name, T("SEFLG_")),
    (*  3 *) startsWith(name, T("SE_SIDBIT_")) \/ name = T("SE_SIDBITS"),
    (*  4 *) startsWith(name, T("SE_ECL_")),
    (*  5 *) startsWith(name, T("SE_CALC_")) \/ startsWith(name, T("SE_BIT_")),
    (*  6 *) startsWith(name, T("SE_HELFLAG_")) \/ startsWith(name, T("SE_HELIACAL")) \/ startsWith(name, T("SE_MORNING_")) \/ startsWith(name, T("SE_EVENING_")) \/ startsWith(name, T("SE_ACRONYCHAL")) \/ startsWith(name, T("SE_COSMICAL")),
    (*  7 *) startsWith(name, T("SE_NODBIT_")),
    (*  8 *) startsWith(name, T("SE_SPLIT_DEG_")),
    (*  9 *) startsWith(name, T("SE_TIDAL_")),
    (* 10 *) startsWith(name, T("SE_MODEL_")) \/ startsWith(name, T("NSE_MODEL")),
    (* 11 *) startsWith(name, T("SEMOD_")),
    (* 12 *) startsWith(name, T("SE_AUNIT_")),
    (* 13 *) matchSE(name, {"SUN", "MOON", "MERCURY", "VENUS", "MARS", "JUPITER", "SATURN", "URANUS", "NEPTUNE", "PLUTO", "MEAN_NODE", "TRUE_NODE", "MEAN_APOG", "OSCU_APOG", "EARTH", "CHIRON", "PHOLUS", "CERES", "PALLAS", "JUNO", "VESTA", "INTP_", "NPLANETS", "ECL_NUT"}),
    (* 14 *) matchSE(name, {"CUPIDO", "HADES", "ZEUS", "KRONOS", "APOLLON", "ADMETOS", "VULKANUS", "POSEIDON", "ISIS", "NIBIRU", "HARRINGTON", "NEPTUNE_LEVERRIER", "NEPTUNE_ADAMS", "PLUTO_LOWELL", "PLUTO_PICKERING", "VULCAN", "WHITE_MOON", "PROSERPINA", "WALDEMATH"}),
    (* 15 *) matchSE(name, {"ASC", "MC", "ARMC", "VERTEX", "EQUASC", "COASC1", "COASC2", "POLASC", "NASCMC"}),
    (* 16 *) matchSE(name, {"JUL_CAL", "GREG_CAL"}),
    (* 17 *) matchSE(name, {"FICT_OFFSET", "FICT_OFFSET_1", "FICT_MAX", "AST_OFFSET", "PLMOON_OFFSET", "COMET_OFFSET", "NALL_NAT_POINTS", "NFICT_ELEM", "VARUNA"}),
    (* 18 *) matchSE(name, {"TRUE_TO_APP", "APP_TO_TRUE"}),
    (* 19 *) matchSE(name, {"ECL2HOR", "EQU2HOR", "HOR2ECL", "HOR2EQU"}),
    (* 20 *) matchSE(name, {"PHOTOPIC_FLAG", "SCOTOPIC_FLAG", "MIXEDOPIC_FLAG"}),
    (* 21 *) name = T("SE_FIXSTAR") \/ name = T("SE_MAX_STNAME"),
    (* 22 *) name = T("SE_DELTAT_AUTOMATIC")
  >>

\* a classifier that tests the planet pattern before the prefixes
planetsFirst(p) ==
  IF p[13] THEN "PLANETS"
  ELSE IF p[4] THEN "ECLIPSE"
  ELSE "OTHER"

categorizeConstantPlanetsFirst(name) == planetsFirst(constantPredicates(name))

\* the if / else-if chain of categorizeConstant over the values p of its
\* conditions: the branch of the first one that holds
constantBranch(p) ==
  IF p[1] THEN "AYANAMSA"
  ELSE IF p[2] THEN "CALC_FLAGS"
  ELSE IF p[3] THEN "SIDEREAL_BITS"
  ELSE IF p[4] THEN "ECLIPSE"
  ELSE IF p[5] THEN "RISE_TRANSIT"
  ELSE IF p[6] THEN "HELIACAL"
  ELSE IF p[7] THEN "NODE_APSIDES"
  ELSE IF p[8] THEN "SPLIT_DEG"
  ELSE IF p[9] THEN "TIDAL"
  ELSE IF p[10] THEN "MODELS"
  ELSE IF p[11] THEN "MODEL_VALUES"
  ELSE IF p[12] THEN "UNITS"
  ELSE IF p[13] THEN "PLANETS"
  ELSE IF p[14] THEN "FICTITIOUS_PLANETS"
  ELSE IF p[15] THEN "HOUSE_POINTS"
  ELSE IF p[16] THEN "CALENDAR"
  ELSE IF p[17] THEN "OFFSETS"
  ELSE IF p[18] THEN "REFRACTION"
  ELSE IF p[19] THEN "COORDINATE_TRANSFORM"
  ELSE IF p[20] THEN "OPTIC"
  ELSE IF p[21] THEN "FIXSTAR"
  ELSE IF p[22] THEN "DELTAT"
  ELSE "OTHER"

categorizeConstant(name) == constantBranch(constantPredicates(name))

\* the conditions of the loop body of categorizeFunctions, in order
functionPredicates(name) ==
  <<
    (*  1 *) includes(name, T("fixstar")),
    (*  2 *) matchAny(name, {"calc", "calc_ut", "calc_pctr", "solcross", "mooncross", "helio_cross", "pheno", "nod_aps", "orbital"}),
    (*  3 *) matchAny(name, {"julday", "revjul", "utc", "jdet", "jdut", "date_conversion"}),
    (*  4 *) matchAny(name, {"house"}),
    (*  5 *) matchAny(name, {"eclipse", "occult"}),
    (*  6 *) matchAny(name, {"rise_trans", "azalt"}),
    (*  7 *) matchAny(name, {"heliacal", "vis_limit"}),
    (*  8 *) matchAny(name, {"cotrans", "refrac"}),
    (*  9 *) matchAny(name, {"deltat", "time_equ", "lmt_to_lat", "lat_to_lmt"}),
    (* 10 *) matchAny(name, {"sid", "ayanamsa"}),
    (* 11 *) matchAny(name, {"degnorm", "radnorm", "split_deg", "day_of_week", "d2l", "csnorm", "difcs", "difdeg", "difrad", "csround", "midp"})
  >>

\* the if / else-if chain of the loop body over the values p of its
\* conditions
functionBranch(p) ==
  IF p[1] THEN "Fixed Stars"
  ELSE IF p[2] THEN "Core Calculations"
  ELSE IF p[3] THEN "Date/Time"
  ELSE IF p[4] THEN "Houses"
  ELSE IF p[5] THEN "Eclipses"
  ELSE IF p[6] THEN "Rise/Transit"
  ELSE IF p[7] THEN "Heliacal"
  ELSE IF p[8] THEN "Coordinate Transforms"
  ELSE IF p[9] THEN "Delta T"
  ELSE IF p[10] THEN "Sidereal"
  ELSE IF p[11] THEN "Utility"
  ELSE "Other"

\* the category one routine is pushed to
functionCategory(name) == functionBranch(functionPredicates(name))

\* the keys of the categories record, in insertion order
functionCategories ==
  <<"Core Calculations", "Fixed Stars", "Date/Time", "Houses", "Eclipses",
    "Rise/Transit", "Heliacal", "Coordinate Transforms", "Delta T", "Sidereal",
    "Utility", "Other">>

\* the loop of categorizeFunctions, from index i on: the declaration is
\* pushed to the list of the branch taken
RECURSIVE categorizeFrom(_, _, _)
categorizeFrom(fns, i, cats) ==
  IF i > Len(fns) THEN cats
  ELSE categorizeFrom(fns, i + 1,
         [cats EXCEPT ![functionCategory(T(fns[i].name))] = Append(@, fns[i])])

categorizeFunctions(fns) ==
  categorizeFrom(fns, 1, [c \in Range(functionCategories) |-> <<>>])

(***************************************************************************)
(* Constants: parsing of values, dependencies, ordering, document          *)
(***************************************************************************)

\* /^\d+\s*<op>\s*\d+$/ where the operator occupies v[k..k+w-1]
BinaryOfDigits(v, k, w) ==
  LET l == SubSeq(v, 1, k - 1)
      r == SubSeq(v, k + w, Len(v))
  IN  /\ \E n \in 1..Len(l) :
           AllIn(SubSeq(l, 1, n), Digit) /\ AllIn(SubSeq(l, n + 1, Len(l)), Space)
      /\ \E n \in 1..Len(r) :
           AllIn(SubSeq(r, 1, n - 1), Space) /\ AllIn(SubSeq(r, n, Len(r)), Digit)

\* /^[A-Z0-9_]+(\s*[|&+\-*]\s*[A-Z0-9_]+)+$/
BareExpression(v) ==
  LET Op  == {"|", "&", "+", "-", "*"}
      Gap == {i \in DOMAIN v : v[i] \notin IdChar}
      \* the gap that index i lies in
      GapOf(i) == {k \in Gap : \A m \in Min({i, k})..Max({i, k}) : m \in Gap}
  IN  /\ Len(v) > 0
      /\ AllIn(v, IdChar \cup Space \cup Op)
      /\ v[1] \in IdChar /\ v[Len(v)] \in IdChar
      /\ Gap # {}
      /\ \A i \in Gap : Cardinality({k \in GapOf(i) : v[k] \in Op}) = 1

\* the null that parseConstantValue returns (a kept value is never empty)
NullValue == [value |-> <<>>, isNumeric |-> FALSE]

\* parseConstantValue: the value kept for a #define, or NullValue when
\* the define is dropped
parseConstantValue(value) ==
  LET n       == Len(value)
      DigDot  == Digit \cup {"."}
      NumOps  == Digit \cup Space \cup {"*", "+", "-", "/", "<", ">", "|", "&", "^", "(", ")"}
      wrapped == n >= 2 /\ value[1] = "(" /\ value[n] = ")"
  IN
  IF \/ n > 0 /\ AllIn(value, DigDot)
     \/ n > 1 /\ value[1] = "-" /\ AllIn(Tail(value), DigDot)
    THEN [value |-> value, isNumeric |-> TRUE]
  ELSE IF n >= 4 /\ wrapped /\ value[2] = "-" /\ AllIn(SubSeq(value, 3, n - 1), DigDot)
    THEN [value |-> value, isNumeric |-> TRUE]
  ELSE IF \E k \in DOMAIN value :
            value[k] \in {"*", "+", "-", "/"} /\ BinaryOfDigits(value, k, 1)
    THEN [value |-> Parens(value), isNumeric |-> TRUE]
  ELSE IF \E k \in 1..(n - 1) :
            value[k] = "<" /\ value[k + 1] = "<" /\ BinaryOfDigits(value, k, 2)
    THEN [value |-> Parens(value), isNumeric |-> TRUE]
  ELSE IF /\ wrapped
          /\ \A i \in DOMAIN Inner(value) : Inner(value)[i] # ")"
          /\ \E i \in DOMAIN Inner(value) : Inner(value)[i] \in Digit
          /\ AllIn(Inner(value), NumOps)
    THEN [value |-> value, isNumeric |-> TRUE]
  ELSE IF /\ wrapped
          /\ \A i \in DOMAIN Inner(value) : Inner(value)[i] # ")"
          /\ \E i \in DOMAIN Inner(value) : Inner(value)[i] \in Digit
          /\ AllIn(Inner(value), Upper \cup {"_"} \cup NumOps)
    THEN [value |-> value, isNumeric |-> FALSE]
  ELSE IF n > 0 /\ value[1] \in Upper /\ AllIn(Tail(value), IdChar)
    THEN [value |-> value, isNumeric |-> FALSE]
  ELSE IF /\ wrapped /\ n >= 3
          /\ AllIn(Inner(value), IdChar \cup Space \cup {"|", "&", "+", "-", "*"})
    THEN [value |-> value, isNumeric |-> FALSE]
  ELSE IF BareExpression(value)
    THEN [value |-> Parens(value), isNumeric |-> FALSE]
  ELSE NullValue

\* findDependencies: the matches of /\b([A-Z][A-Z0-9_]+)\b/g in value, in
\* order.  A match is a whole word (a maximal run of \w) that starts with a
\* capital and has at least one more character, all of [A-Z0-9_].
RECURSIVE findDependenciesFrom(_, _)
findDependenciesFrom(value, i) ==
  IF i > Len(value) THEN <<>>
  ELSE IF value[i] \notin WordChar THEN findDependenciesFrom(value, i + 1)
  ELSE LET e == Min({j \in i..Len(value) :
                       j = Len(value) \/ value[j + 1] \notin WordChar})
           w == SubSeq(value, i, e)
       IN  (IF Len(w) >= 2 /\ w[1] \in Upper /\ AllIn(Tail(w), IdChar)
              THEN <<w>> ELSE <<>>)
           \o findDependenciesFrom(value, e + 1)

findDependencies(value) == findDependenciesFrom(value, 1)

\* s.trim()
RECURSIVE trim(_)
trim(s) ==
  IF s = <<>> THEN s
  ELSE IF s[1] \in Space THEN trim(Tail(s))
  ELSE IF s[Len(s)] \in Space THEN trim(SubSeq(s, 1, Len(s) - 1))
  ELSE s

\* value.replace(/\/\*.*?\*\//g, "")
RECURSIVE stripBlockComments(_)
stripBlockComments(s) ==
  LET opens == {i \in 1..(Len(s) - 1) : s[i] = "/" /\ s[i + 1] = "*"}
      close(i) == {j \in (i + 2)..(Len(s) - 1) : s[j] = "*" /\ s[j + 1] = "/"}
      found == {i \in opens : close(i) # {}}
  IN  IF found = {} THEN s
      ELSE LET i == Min(found)
               j == Min(close(i))
           IN  SubSeq(s, 1, i - 1) \o stripBlockComments(SubSeq(s, j + 2, Len(s)))

\* value.replace(/\/\/.*$/, "")
stripLineComment(s) ==
  LET starts == {i \in 1..(Len(s) - 1) : s[i] = "/" /\ s[i + 1] = "/"}
  IN  IF starts = {} THEN s ELSE SubSeq(s, 1, Min(starts) - 1)

\* names the parser never turns into constants
skipNames ==
  {"_SWEPHEXP_INCLUDED", "MY_TRUE", "MY_FALSE", "MALLOC", "CALLOC", "FREE",
   "CALL_CONV", "EXP32", "SIMULATE_VICTORVB", "TJD_INVALID", "ext_def"}

\* parseConstants on the #define lines of the header.  A line is the match
\* of the define pattern: name, value (trimmed) and the trailing comment
\* (trimmed, <<>> when there is none).
RECURSIVE parseConstants(_)
parseConstants(defines) ==
  IF defines = <<>> THEN <<>>
  ELSE
    LET d      == Head(defines)
        rest   == parseConstants(Tail(defines))
        value  == trim(stripLineComment(trim(stripBlockComments(d.value))))
        parsedValue == parseConstantValue(value)
    IN  IF \E n \in skipNames : d.name = T(n) THEN rest
        ELSE IF d.value # <<>> /\ d.value[1] \in {"\"", "'"} THEN rest
        ELSE IF value = <<>> THEN rest
        ELSE IF parsedValue = NullValue THEN rest
        ELSE <<[name         |-> d.name,
                value        |-> parsedValue.value,
                comment      |-> d.comment,
                dependencies |-> findDependencies(parsedValue.value)]>> \o rest

\* new Map(constants.map((c) => [c.name, c])): a later definition of a name
\* replaces an earlier one
byName(constants) ==
  [n \in {constants[i].name : i \in DOMAIN constants} |->
     constants[Max({i \in DOMAIN constants : constants[i].name = n})]]

\* first pass: the constants with a dependency that no constant defines
missingDependencies(constants) ==
  {constants[i].name : i \in
     {j \in DOMAIN constants :
        \E dep \in Range(constants[j].dependencies) :
          dep \notin DOMAIN byName(constants)}}

\* one run of the for loop inside "while (changed)", from index i on
RECURSIVE skipPass(_, _, _)
skipPass(constants, i, skipped) ==
  IF i > Len(constants) THEN skipped
  ELSE LET c == constants[i]
       IN  IF c.name \in skipped THEN skipPass(constants, i + 1, skipped)
           ELSE IF \E dep \in Range(c.dependencies) : dep \in skipped
             THEN skipPass(constants, i + 1, skipped \cup {c.name})
           ELSE skipPass(constants, i + 1, skipped)

\* a second pass that never runs: only the constants with a missing
\* dependency are skipped
skipNoDependents(constants, skipped) == skipped

\* while (changed): repeat the pass until it adds nothing
RECURSIVE skipDependents(_, _)
skipDependents(constants, skipped) ==
  LET after == skipPass(constants, 1, skipped)
  IN  IF after = skipped THEN skipped ELSE skipDependents(constants, after)

\* visit(name), threading visited, inProgress and sorted through st
RECURSIVE visit(_, _, _, _)
RECURSIVE visitDependencies(_, _, _, _, _)

\* a visit that does not descend into the dependencies
visitNoDependencies(constants, skipped, st, deps, i) == st

\* the for loop of visit over c.dependencies, from index i on
visitDependencies(constants, skipped, st, deps, i) ==
  IF i > Len(deps) THEN st
  ELSE visitDependencies(constants, skipped,
         IF deps[i] \in DOMAIN byName(constants)
           THEN visit(constants, skipped, st, deps[i]) ELSE st,
         deps, i + 1)

\* a visit without the visited check
visitAgain(constants, skipped, st, name) ==
  IF name \in st.inProgress THEN st
  ELSE IF name \in skipped THEN st
  ELSE IF name \notin DOMAIN byName(constants) THEN st
  ELSE LET c     == byName(constants)[name]
           begun == [st EXCEPT !.inProgress = @ \cup {name}]
           after == visitDependencies(constants, skipped, begun, c.dependencies, 1)
       IN  [visited    |-> after.visited \cup {name},
            inProgress |-> after.inProgress \ {name},
            sorted     |-> Append(after.sorted, c)]

\* a visit that treats a revisited in-progress name as a failed one: the
\* name is marked, and its own visit then pushes nothing
visitDropsCycle(constants, skipped, st, name) ==
  IF name \in st.visited THEN st
  ELSE IF name \in st.inProgress THEN [st EXCEPT !.visited = @ \cup {name}]
  ELSE IF name \in skipped THEN st
  ELSE IF name \notin DOMAIN byName(constants) THEN st
  ELSE LET c     == byName(constants)[name]
           begun == [st EXCEPT !.inProgress = @ \cup {name}]
           after == visitDependencies(constants, skipped, begun, c.dependencies, 1)
       IN  IF name \in after.visited
             THEN [after EXCEPT !.inProgress = @ \ {name}]
             ELSE [visited    |-> after.visited \cup {name},
                   inProgress |-> after.inProgress \ {name},
                   sorted     |-> Append(after.sorted, c)]

visit(constants, skipped, st, name) ==
  IF name \in st.visited THEN st
  ELSE IF name \in st.inProgress THEN st
  ELSE IF name \in skipped THEN st
  ELSE IF name \notin DOMAIN byName(constants) THEN st
  ELSE LET c     == byName(constants)[name]
           begun == [st EXCEPT !.inProgress = @ \cup {name}]
           after == visitDependencies(constants, skipped, begun, c.dependencies, 1)
       IN  [visited    |-> after.visited \cup {name},
            inProgress |-> after.inProgress \ {name},
            sorted     |-> Append(after.sorted, c)]

\* the final for loop of topologicalSort, from index i on
RECURSIVE visitAll(_, _, _, _)
visitAll(constants, skipped, st, i) ==
  IF i > Len(constants) THEN st
  ELSE visitAll(constants, skipped,
         IF constants[i].name \notin skipped
           THEN visit(constants, skipped, st, constants[i].name) ELSE st,
         i + 1)

\* the skipped set once both passes are over
skippedOf(constants) == skipDependents(constants, missingDependencies(constants))

topologicalSort(constants) ==
  visitAll(constants, skippedOf(constants),
           [visited |-> {}, inProgress |-> {}, sorted |-> <<>>], 1).sorted

\* group.replace(/_/g, " ")
underscoresToSpaces(s) == [i \in DOMAIN s |-> IF s[i] = "_" THEN " " ELSE s[i]]

groupOrder ==
  <<"CALENDAR", "PLANETS", "FICTITIOUS_PLANETS", "OFFSETS", "HOUSE_POINTS",
    "CALC_FLAGS", "SIDEREAL_BITS", "AYANAMSA", "NODE_APSIDES", "ECLIPSE",
    "RISE_TRANSIT", "COORDINATE_TRANSFORM", "REFRACTION", "HELIACAL", "OPTIC",
    "SPLIT_DEG", "TIDAL", "DELTAT", "MODELS", "MODEL_VALUES", "UNITS",
    "FIXSTAR", "OTHER">>

\* `export const ${c.name} = ${c.value};${comment}`
constantLine(c) ==
  T("export const ") \o c.name \o T(" = ") \o c.value \o T(";")
  \o (IF c.comment # <<>> THEN T(" // ") \o c.comment ELSE <<>>)

\* a grouping that files every constant under OTHER as well
groupConstantsAlsoOther(sorted, i, groups) ==
  [g \in DOMAIN groups |->
     SelectSeq(sorted, LAMBDA c : g = "OTHER" \/ categorizeConstant(c.name) = g)]

\* the loop that fills groups: every sorted constant is pushed to the list
\* of its category (an absent list and an empty one are emitted alike)
RECURSIVE groupConstants(_, _, _)
groupConstants(sorted, i, groups) ==
  IF i > Len(sorted) THEN groups
  ELSE groupConstants(sorted, i + 1,
         [groups EXCEPT ![categorizeConstant(sorted[i].name)] = Append(@, sorted[i])])

\* the loop over groupOrder, from index g on: the lines pushed
RECURSIVE groupLines(_, _)
groupLines(groups, g) ==
  IF g > Len(groupOrder) THEN <<>>
  ELSE LET group == groups[groupOrder[g]]
       IN  (IF Len(group) = 0 THEN <<>>
            ELSE <<T("// ") \o underscoresToSpaces(T(groupOrder[g]))>>
                 \o [k \in DOMAIN group |-> constantLine(group[k])]
                 \o << <<>> >>)
           \o groupLines(groups, g + 1)

\* generateConstants: the lines of constants.ts (they are joined by "\n")
generateConstants(constants) ==
  LET sorted == topologicalSort(constants)
      groups == groupConstants(sorted, 1, [g \in Range(groupOrder) |-> <<>>])
  IN  <<T("/**"), T(" * Swiss Ephemeris Constants"),
        T(" * Auto-generated from swephexp.h - DO NOT EDIT"), T(" */"), <<>> >>
      \o groupLines(groups, 1)

(***************************************************************************)
(* topologicalSort and generateConstants on one list of constants          *)
(***************************************************************************)

\* length of the list of constants
MaxConsts == 3

\* names the list defines: one of the first group the document emits, one of
\* a later group, one more
TopoNames == {T("SE_GREG_CAL"), T("SE_SUN"), T("SE_MC")}

\* values as parseConstantValue leaves them; TJD_INVALID is a name the
\* parser never defines
TopoValues ==
  {T("0"), T("SE_SUN"), T("SE_GREG_CAL"), T("SE_MC"), T("TJD_INVALID"),
   T("(SE_SUN|SE_MC)")}

\* the record parseConstants pushes
Constant(name, value) ==
  [name |-> name, value |-> value, comment |-> <<>>,
   dependencies |-> findDependencies(value)]

TopoConstants == {Constant(n, v) : n \in TopoNames, v \in TopoValues}

TopoInputs == UNION {[1..n -> TopoConstants] : n \in 0..MaxConsts}

InitTopo ==
  /\ tconstants \in TopoInputs
  /\ tpc = "start" /\ tsorted = <<>> /\ document = <<>>
  /\ WrapperIdle /\ CatIdle /\ GenIdle /\ ApiIdle /\ FunIdle

\* a call of topologicalSort
TopologicalSort ==
  /\ tpc = "start"
  /\ tsorted' = topologicalSort(tconstants)
  /\ tpc' = "sorted"
  /\ UNCHANGED <<tconstants, document>>
  /\ UNCHANGED <<wvars, cvars, gvars, avars, fvars>>

\* a call of generateConstants, which sorts first
GenerateConstants ==
  /\ tpc \in {"start", "sorted"}
  /\ tsorted' = topologicalSort(tconstants)
  /\ document' = generateConstants(tconstants)
  /\ tpc' = "generated"
  /\ UNCHANGED tconstants
  /\ UNCHANGED <<wvars, cvars, gvars, avars, fvars>>

NextTopo == TopologicalSort \/ GenerateConstants

SpecTopo == InitTopo /\ [][NextTopo]_vars

(***************************************************************************)
(* Properties of the ordering and of the constants document                *)
(***************************************************************************)

\* the names a list of constants defines
NamesOf(cs) == {cs[i].name : i \in DOMAIN cs}

\* the names a constant called n refers to, over all its definitions
RefersTo(cs, n) ==
  UNION {Range(cs[i].dependencies) : i \in {j \in DOMAIN cs : cs[j].name = n}}

\* the names reachable from the set S along references
RECURSIVE ReachableFrom(_, _)
ReachableFrom(cs, S) ==
  LET more == S \cup UNION {RefersTo(cs, n) : n \in S}
  IN  IF more = S THEN S ELSE ReachableFrom(cs, more)

\* no constant refers to itself, directly or through others
Acyclic(cs) == \A n \in NamesOf(cs) : n \notin ReachableFrom(cs, RefersTo(cs, n))

\* the excluded names: those that refer to a name nothing defines, and those
\* that refer, directly or through others, to an excluded name
Excluded(cs) ==
  {n \in NamesOf(cs) :
     \E m \in ReachableFrom(cs, RefersTo(cs, n)) \cup RefersTo(cs, n) :
       m \notin NamesOf(cs)}

\* how often name n occurs in the sequence s of constants
Occurrences(s, n) == Cardinality({i \in DOMAIN s : s[i].name = n})

\* the lines of the document that define constants, the name a line defines
\* and the names its value refers to
DefinitionLines == {i \in DOMAIN document : startsWith(document[i], T("export const "))}
DefinedName(line) ==
  LET rest == SubSeq(line, Len(T("export const ")) + 1, Len(line))
  IN  SubSeq(rest, 1, Min({k \in DOMAIN rest : rest[k] = " "}) - 1)
DefinedValue(line) ==
  LET eq == Min({k \in DOMAIN line : line[k] = "="})
      sc == Min({k \in DOMAIN line : line[k] = ";"})
  IN  SubSeq(line, eq + 2, sc - 1)

\* C4: in the constants document, the line defining a dependency d of an
\* emitted constant c stands before the line defining c.  Stated here for the
\* inputs without a reference cycle only, where an order that satisfies it
\* exists; the generator does not satisfy it even there.
C4_DocumentOrder ==
  (tpc = "generated" /\ Acyclic(tconstants)) =>
    \A i \in DefinitionLines :
      \A d \in Range(findDependencies(DefinedValue(document[i]))) :
        \A j \in DefinitionLines :
          DefinedName(document[j]) = d => j < i

\* C5: on an acyclic input, every dependency of a returned constant stands at
\* an earlier index of the returned sequence than the constant.
C5_SortedRespectsDependencies ==
  (tpc = "sorted" /\ Acyclic(tconstants)) =>
    \A i \in DOMAIN tsorted :
      \A d \in Range(tsorted[i].dependencies) :
        \E j \in 1..(i - 1) : tsorted[j].name = d

\* an acyclic input that lists a constant before its dependency, both returned
C5_Witness ==
  /\ tpc = "sorted" /\ Acyclic(tconstants) /\ Len(tsorted) = 3
  /\ \E i \in DOMAIN tconstants : \E j \in DOMAIN tconstants :
       i < j /\ tconstants[j].name \in Range(tconstants[i].dependencies)

\* C6: a constant that refers to a name no constant defines, and every
\* constant that depends on it directly or transitively, is absent from the
\* sequence topologicalSort returns and from the constants document.
C6_ExcludedAbsent ==
  /\ tpc \in {"sorted", "generated"} =>
       \A n \in Excluded(tconstants) : Occurrences(tsorted, n) = 0
  /\ tpc = "generated" =>
       \A i \in DefinitionLines : DefinedName(document[i]) \notin Excluded(tconstants)

\* one constant refers to an undefined name, a second depends on it and is
\* listed before it, a third depends on the second and is listed first
C6_Witness ==
  /\ tpc = "generated" /\ Len(tconstants) = 3
  /\ tconstants[3].dependencies = <<T("TJD_INVALID")>>
  /\ tconstants[2].dependencies = <<tconstants[3].name>>
  /\ tconstants[1].dependencies = <<tconstants[2].name>>
  /\ Cardinality(NamesOf(tconstants)) = 3
  /\ tsorted = <<>> /\ DefinitionLines = {}

\* C7: the returned sequence holds every name that is not excluded exactly
\* once and no excluded name, and is no longer than the input.
C7_EachNameOnce ==
  tpc = "sorted" =>
    /\ \A n \in NamesOf(tconstants) \ Excluded(tconstants) : Occurrences(tsorted, n) = 1
    /\ \A n \in Excluded(tconstants) : Occurrences(tsorted, n) = 0
    /\ \A i \in DOMAIN tsorted : tsorted[i].name \in NamesOf(tconstants)
    /\ Len(tsorted) <= Len(tconstants)

\* a name defined twice and referred to by another constant, next to an
\* excluded constant: the output is shorter than the input
C7_Witness ==
  /\ tpc = "sorted" /\ Len(tconstants) = 3
  /\ tconstants[1].name = tconstants[3].name
  /\ tconstants[2].dependencies = <<tconstants[1].name>>
  /\ tconstants[2].name # tconstants[1].name
  /\ Excluded(tconstants) = {}
  /\ Len(tsorted) = 2

\* the names that lie on a reference cycle (a name that refers to itself
\* included)
OnCycle(cs) == {n \in NamesOf(cs) : n \in ReachableFrom(cs, RefersTo(cs, n))}

\* C19: a constant on a dependency cycle, a self-reference included, whose
\* dependency closure holds no name missing from the input is retained: it
\* occurs exactly once in the sequence topologicalSort returns and is not in
\* the excluded set.
C19_CycleRetained ==
  tpc = "sorted" =>
    \A n \in OnCycle(tconstants) :
      ReachableFrom(tconstants, {n}) \subseteq NamesOf(tconstants) =>
        /\ Occurrences(tsorted, n) = 1
        /\ n \notin skippedOf(tconstants)

\* two constants that refer to each other and one that refers to itself:
\* all three are returned
C19_Witness ==
  /\ tpc = "sorted" /\ Len(tconstants) = 3
  /\ tconstants[1].dependencies = <<tconstants[2].name>>
  /\ tconstants[2].dependencies = <<tconstants[1].name>>
  /\ tconstants[3].dependencies = <<tconstants[3].name>>
  /\ Cardinality(OnCycle(tconstants)) = 3
  /\ Len(tsorted) = 3

(***************************************************************************)
(* categorizeConstant and categorizeFunctions on one input                 *)
(***************************************************************************)

\* length of the lists of sample declarations
MaxFns == 2

\* names that no pattern matches, and names on the edge of a pattern
SampleConstantNames ==
  <<"SE_DE_NUMBER", "SE_INTP_", "SE_INTP_APOG", "SE_SUNRISE", "SE_SIDBITS",
    "SE_SIDBITS2", "SE_SIDBIT_", "NSE_MODELS", "SE_MODEL", "SE_HELIACAL",
    "SE_ASCMC", "SE_FIXSTAR", "SE_FIXSTARS", "SEFLG", "SE_", "S", "X_SE_SUN",
    "SE_ECL_NUT", "SE_NPLANETS", "SE_VARUNA", "TJD_INVALID">>

CatConstantInputs ==
  {T(n) : n \in Range(generatedConstantNames) \cup Range(SampleConstantNames)}

\* declarations whose names match several patterns, one pattern or none
SampleFunctionNames ==
  <<"swe_fixstar2_mag", "swe_heliacal_pheno_ut", "swe_heliacal_ut",
    "swe_jdet_to_utc", "swe_houses", "swe_sol_eclipse_when_glob",
    "swe_rise_trans", "swe_refrac", "swe_deltat", "swe_set_sid_mode",
    "swe_split_deg", "swe_close">>

SampleFunctions == {f \in Range(functions) : f.name \in Range(SampleFunctionNames)}

\* every declaration of the header alone, and the lists of sample declarations
CatFunctionInputs ==
  {<<f>> : f \in Range(functions)}
    \cup UNION {[1..n -> SampleFunctions] : n \in 0..MaxFns}

InitCat ==
  /\ \/ cpc = "constant" /\ cname \in CatConstantInputs /\ cfns = <<>>
     \/ cpc = "functions" /\ cname = <<>> /\ cfns \in CatFunctionInputs
  /\ category = "" /\ categories = <<>>
  /\ WrapperIdle /\ TopoIdle /\ GenIdle /\ ApiIdle /\ FunIdle

\* a call of categorizeConstant(cname)
CategorizeConstant ==
  /\ cpc = "constant"
  /\ category' = categorizeConstant(cname)
  /\ cpc' = "constant done"
  /\ UNCHANGED <<cname, cfns, categories>>
  /\ UNCHANGED <<wvars, tvars, gvars, avars, fvars>>

\* a call of categorizeFunctions(cfns)
CategorizeFunctions ==
  /\ cpc = "functions"
  /\ categories' = categorizeFunctions(cfns)
  /\ cpc' = "functions done"
  /\ UNCHANGED <<cname, cfns, category>>
  /\ UNCHANGED <<wvars, tvars, gvars, avars, fvars>>

NextCat == CategorizeConstant \/ CategorizeFunctions

SpecCat == InitCat /\ [][NextCat]_vars

\* the categories of the specific patterns, in the order they are tried
constantCategoryList ==
  <<"AYANAMSA", "CALC_FLAGS", "SIDEREAL_BITS", "ECLIPSE", "RISE_TRANSIT",
    "HELIACAL", "NODE_APSIDES", "SPLIT_DEG", "TIDAL", "MODELS", "MODEL_VALUES",
    "UNITS", "PLANETS", "FICTITIOUS_PLANETS", "HOUSE_POINTS", "CALENDAR",
    "OFFSETS", "REFRACTION", "COORDINATE_TRANSFORM", "OPTIC", "FIXSTAR",
    "DELTAT">>

functionCategoryList ==
  <<"Fixed Stars", "Core Calculations", "Date/Time", "Houses", "Eclipses",
    "Rise/Transit", "Heliacal", "Coordinate Transforms", "Delta T",
    "Sidereal", "Utility">>

\* the category of the first pattern that matches, the fallback if none does
FirstMatch(preds, cats, fallback) ==
  LET M == {i \in DOMAIN preds : preds[i]}
  IN  IF M = {} THEN fallback ELSE cats[Min(M)]

\* how often declaration f occurs in the sequence s
Count(s, f) == Cardinality({i \in DOMAIN s : s[i] = f})

\* C10: categorizeConstant and categorizeFunctions give every name exactly
\* one category, that of the first pattern of the ordered list that matches
\* the name, and the fallback (OTHER, Other) exactly when no pattern matches.
C10_FirstMatchingCategory ==
  /\ cpc = "constant done" =>
       LET p == constantPredicates(cname)
       IN  /\ Len(p) = Len(constantCategoryList)
           /\ category = FirstMatch(p, constantCategoryList, "OTHER")
           /\ (category = "OTHER") <=> (\A i \in DOMAIN p : ~p[i])
  /\ cpc = "functions done" =>
       /\ DOMAIN categories = Range(functionCategoryList) \cup {"Other"}
       /\ \A k \in DOMAIN cfns :
            LET p    == functionPredicates(T(cfns[k].name))
                want == FirstMatch(p, functionCategoryList, "Other")
            IN  /\ Len(p) = Len(functionCategoryList)
                /\ \A c \in DOMAIN categories :
                     Count(categories[c], cfns[k]) =
                       IF c = want THEN Count(cfns, cfns[k]) ELSE 0
                /\ (want = "Other") <=> (\A i \in DOMAIN p : ~p[i])

\* a name two patterns match (the eclipse prefix and the planet pattern) got
\* the category of the earlier one
C10_Witness ==
  /\ cpc = "constant done" /\ cname = T("SE_ECL_NUT")
  /\ constantPredicates(cname)[4] /\ constantPredicates(cname)[13]
  /\ category = "ECLIPSE"

\* the categories the return statements of categorizeConstant name: the
\* branch taken when exactly the k-th condition holds, and the final one
ReturnedCategories ==
  LET n == Len(constantPredicates(T("SE_SUN")))
  IN  {constantBranch([j \in 1..n |-> j = k]) : k \in 0..n}

\* the lines of the document that open a group, the one a line l stands
\* under, and the line that opens the group of a category
HeaderLines == {i \in DOMAIN document : startsWith(document[i], T("// "))}
GroupOf(l) == document[Max({h \in HeaderLines : h < l})]
GroupHeader(group) == T("// ") \o underscoresToSpaces(T(group))

\* C29: every constant topologicalSort returns is defined by exactly one
\* line of the constants document, under the heading of exactly one group
\* (that of its category); every category categorizeConstant can return is
\* one of groupOrder.
C29_OneGroupOnce ==
  /\ ReturnedCategories \subseteq Range(groupOrder)
  /\ tpc = "generated" =>
       \A i \in DOMAIN tsorted :
         LET lines == {l \in DefinitionLines :
                         DefinedName(document[l]) = tsorted[i].name}
         IN  /\ Cardinality(lines) = 1
             /\ \A l \in lines :
                  /\ \E h \in HeaderLines : h < l
                  /\ GroupOf(l) = GroupHeader(categorizeConstant(tsorted[i].name))

\* three constants of three categories have been written under three headings
C29_Witness ==
  /\ tpc = "generated" /\ Len(tsorted) = 3
  /\ Cardinality(HeaderLines) = 3 /\ Cardinality(DefinitionLines) = 3
  /\ Cardinality(ReturnedCategories) = Len(groupOrder)

(***************************************************************************)
(* Routine declarations: parsing, raw interface, export list               *)
(***************************************************************************)

\* s.split(sep) for a one-character separator
RECURSIVE split(_, _)
split(s, sep) ==
  LET at == {i \in DOMAIN s : s[i] = sep}
  IN  IF at = {} THEN <<s>>
      ELSE <<SubSeq(s, 1, Min(at) - 1)>> \o split(SubSeq(s, Min(at) + 1, Len(s)), sep)

\* s.split(/\s+/).filter((p) => p): the maximal runs of non-space characters
RECURSIVE words(_)
words(s) ==
  LET t == trim(s)
      sp == {i \in DOMAIN t : t[i] \in Space}
  IN  IF t = <<>> THEN <<>>
      ELSE IF sp = {} THEN <<t>>
      ELSE <<SubSeq(t, 1, Min(sp) - 1)>> \o words(SubSeq(t, Min(sp), Len(t)))

\* parts.join(sep)
RECURSIVE join(_, _)
join(parts, sep) ==
  IF parts = <<>> THEN <<>>
  ELSE IF Len(parts) = 1 THEN parts[1]
  ELSE parts[1] \o sep \o join(Tail(parts), sep)

\* s.replace(/\s+/g, " ")
RECURSIVE collapseSpaces(_)
collapseSpaces(s) ==
  IF s = <<>> THEN s
  ELSE IF s[1] \in Space
    THEN LET rest == {i \in DOMAIN s : s[i] \notin Space}
         IN  IF rest = {} THEN <<" ">>
             ELSE <<" ">> \o collapseSpaces(SubSeq(s, Min(rest), Len(s)))
  ELSE <<s[1]>> \o collapseSpaces(Tail(s))

\* `${n}` for a natural number
RECURSIVE decimal(_)
decimal(n) ==
  LET digit == <<"0", "1", "2", "3", "4", "5", "6", "7", "8", "9">>
  IN  IF n < 10 THEN <<digit[n + 1]>>
      ELSE decimal(n \div 10) \o <<digit[(n % 10) + 1]>>

\* param.replace(/^const\s+/, "")
stripConst(param) ==
  IF startsWith(param, T("const")) /\ Len(param) > 5 /\ param[6] \in Space
    THEN LET rest == {i \in 6..Len(param) : param[i] \notin Space}
         IN  IF rest = {} THEN <<>> ELSE SubSeq(param, Min(rest), Len(param))
    ELSE param

\* the body of the loop of parseParams over paramList, from index i on;
\* params is the list pushed so far.  Every run /\s*\*\s*/ becomes one
\* space: as the text is then cut at runs of spaces, turning each "*" into a
\* space yields the same parts.
RECURSIVE parseParamsFrom(_, _, _)
parseParamsFrom(paramList, i, params) ==
  IF i > Len(paramList) THEN params
  ELSE
    LET param     == trim(paramList[i])
        cleaned   == stripConst(param)
        isPointer == \E k \in DOMAIN cleaned : cleaned[k] = "*"
        parts     == words([k \in DOMAIN cleaned |->
                              IF cleaned[k] = "*" THEN " " ELSE cleaned[k]])
    IN  IF param = <<>> THEN parseParamsFrom(paramList, i + 1, params)
        ELSE IF Len(parts) >= 2
          THEN parseParamsFrom(paramList, i + 1,
                 Append(params,
                   [type      |-> join(SubSeq(parts, 1, Len(parts) - 1), <<" ">>),
                    name      |-> parts[Len(parts)],
                    isPointer |-> isPointer]))
        ELSE IF Len(parts) = 1
          THEN parseParamsFrom(paramList, i + 1,
                 Append(params,
                   [type      |-> parts[1],
                    name      |-> T("arg") \o decimal(Len(params)),
                    isPointer |-> isPointer]))
        ELSE parseParamsFrom(paramList, i + 1, params)

parseParams(paramsStr) ==
  IF paramsStr = T("void") \/ paramsStr = <<>> THEN <<>>
  ELSE parseParamsFrom(split(paramsStr, ","), 1, <<>>)

\* routines the parser leaves out
skipFunctions ==
  {"swe_version", "swe_get_library_path", "swe_cs2timestr", "swe_cs2lonlatstr",
   "swe_cs2degstr", "swe_get_ayanamsa_name", "swe_get_current_file_data",
   "swe_house_name", "swe_set_timeout"}

\* parseFunctions on the declarations of the header.  A declaration is the
\* match of the ext_def pattern: return type (trimmed), name and the text
\* between the parentheses (trimmed).
RECURSIVE parseFunctions(_)
parseFunctions(decls) ==
  IF decls = <<>> THEN <<>>
  ELSE
    LET d         == Head(decls)
        paramsStr == trim(collapseSpaces(stripBlockComments(d.params)))
    IN  IF d.name \in skipFunctions THEN parseFunctions(Tail(decls))
        ELSE <<[returnType |-> d.returnType, name |-> d.name,
                params |-> parseParams(paramsStr)]>>
             \o parseFunctions(Tail(decls))

\* cTypeToTs
cTypeToTs(cType, isPointer) ==
  IF isPointer THEN "number"
  ELSE IF cType = T("void") THEN "void"
  ELSE "number"

\* `  ${fn.name}(${params}): ${returnType};`
functionLine(fn) ==
  T("  ") \o T(fn.name) \o T("(")
  \o join([k \in DOMAIN fn.params |->
             fn.params[k].name \o T(": ")
             \o T(cTypeToTs(fn.params[k].type, fn.params[k].isPointer))],
          T(", "))
  \o T("): ") \o T(cTypeToTs(T(fn.returnType), FALSE)) \o T(";")

\* the loop of generateFunctions over Object.entries(categories), from the
\* k-th key on: the lines pushed
RECURSIVE categoryLines(_, _)
categoryLines(cats, k) ==
  IF k > Len(functionCategories) THEN <<>>
  ELSE LET fns == cats[functionCategories[k]]
       IN  (IF Len(fns) = 0 THEN <<>>
            ELSE <<T("  // ") \o T(functionCategories[k])>>
                 \o [i \in DOMAIN fns |-> functionLine(fns[i])]
                 \o << <<>> >>)
           \o categoryLines(cats, k + 1)

\* generateFunctions: the lines of functions.ts
generateFunctions(fns) ==
  <<T("/**"), T(" * Swiss Ephemeris WASM Interface"),
    T(" * Auto-generated from swephexp.h - DO NOT EDIT"), T(" */"), <<>>,
    T("/**"), T(" * Raw exports from the Swiss Ephemeris WASM module."),
    T(" * All pointer parameters (double*, int*, char*) are memory addresses (number)."),
    T(" * Use the memory utilities to read/write values at these addresses."),
    T(" */"), T("export interface SwissEphWasm {"),
    T("  /** WebAssembly linear memory */"), T("  memory: WebAssembly.Memory;"),
    <<>>, T("  /** Allocate memory */"), T("  malloc(size: number): number;"),
    <<>>, T("  /** Free memory */"), T("  free(ptr: number): void;"), <<>> >>
  \o categoryLines(categorizeFunctions(fns), 1)
  \o <<T("}"), <<>> >>

\* generateIndex: the lines of index.ts
generateIndex ==
  <<T("/**"), T(" * Swiss Ephemeris Generated Bindings"),
    T(" * Auto-generated - DO NOT EDIT"), T(" */"), <<>>,
    T("export * from \"./constants.js\";"),
    T("export * from \"./functions.js\";"),
    T("export * from \"./friendly.js\";"), <<>> >>

\* the parameter names the declarations can carry
ParamNames ==
  UNION {Range(functions[i].params) : i \in DOMAIN functions} \cup {"arg0"}

\* p.name of a parsed parameter
paramName(p) == CHOOSE s \in ParamNames : T(s) = p.name

\* generateFriendlyWrappers: the wrappers of friendly.ts, one for every
\* declaration whose configuration does not skip it, in input order (the
\* lines around them are fixed text)
generateFriendlyWrappers(fns) ==
  LET kept == SelectSeq(fns, LAMBDA fn : ~configOf(fn).skip)
  IN  [i \in DOMAIN kept |->
         [name |-> kept[i].name,
          code |-> generateWrapperFunction(
                     [kept[i] EXCEPT !.params = [k \in DOMAIN @ |-> paramName(@[k])]],
                     configOf(kept[i]))]]

\* generateExportedFunctions: the lines of makefile-exports.txt
generateExportedFunctions(fns) ==
  LET exports == <<T("_malloc"), T("_free")>>
                 \o [i \in DOMAIN fns |-> T("_") \o T(fns[i].name)]
  IN  <<T("# Add this to Makefile.wasm EXPORTED_FUNCTIONS"),
        T("EXPORTED_FUNCTIONS='[")
          \o join([i \in DOMAIN exports |-> <<"\"">> \o exports[i] \o <<"\"">>], T(", "))
          \o T("]'"),
        <<>>,
        T("# Function count: ") \o decimal(Len(fns)),
        <<>> >>

(***************************************************************************)
(* main(): one run of the generator after another, against a disk          *)
(***************************************************************************)

\* runs of the generator
MaxRuns == 2

\* the files main() writes, in the order it writes them
outputPaths ==
  <<"src/generated/constants.ts", "src/generated/functions.ts",
    "src/generated/friendly.ts", "src/generated/index.ts",
    "scripts/makefile-exports.txt">>

\* the statement of main() that writes each file
writeSteps == <<"constants", "functions", "friendly", "index", "exports">>

\* writeFileSync(path, content), appending instead of replacing
appendFileSync(d, path, content) ==
  [p \in DOMAIN d \cup {path} |->
     IF p # path THEN d[p]
     ELSE IF path \in DOMAIN d THEN d[path] \o content ELSE content]

\* writeFileSync(path, content) on the disk d: the file holds content
writeFileSync(d, path, content) ==
  [p \in DOMAIN d \cup {path} |-> IF p = path THEN content ELSE d[p]]

\* the content main() generates at the k-th write statement, from the parsed
\* header
contentOf(k, p) ==
  CASE k = 1 -> generateConstants(p.constants)
    [] k = 2 -> generateFunctions(p.functions)
    [] k = 3 -> generateFriendlyWrappers(p.functions)
    [] k = 4 -> generateIndex
    [] k = 5 -> generateExportedFunctions(p.functions)

\* what main() extracts from the header
parseHeader(h) ==
  [constants |-> parseConstants(h.defines), functions |-> parseFunctions(h.functions)]

\* the files a complete run on header h leaves
generatedFiles(h) ==
  [q \in Range(outputPaths) |->
     contentOf(CHOOSE k \in DOMAIN outputPaths : outputPaths[k] = q, parseHeader(h))]

\* a define line and a declaration of the header, as the patterns match them
Define(name, value, comment) ==
  [name |-> T(name), value |-> T(value), comment |-> T(comment)]

Decl(returnType, name, params) ==
  [returnType |-> returnType, name |-> name, params |-> T(params)]

\* sample headers: an empty one, and three with constants that depend on one
\* another, defines the parser drops, and routines with and without
\* configuration
Headers ==
  { [defines |-> <<>>, functions |-> <<>>],
    [defines |->
       <<Define("SE_SUN", "0", ""), Define("SE_GREG_CAL", "1", "Gregorian")>>,
     functions |->
       <<Decl("int32", "swe_calc_ut",
              "double tjd_ut, int32 ipl, int32 iflag, double *xx, char *serr"),
         Decl("double", "swe_julday",
              "int year, int month, int day, double hour, int gregflag")>>],
    [defines |->
       <<Define("SE_MC", "SE_SUN", ""), Define("TJD_INVALID", "99999999.0", ""),
         Define("SE_SUN", "1 << 0", ""), Define("SE_SIDBITS", "256 // bits", ""),
         Define("SE_SIDM_USER", "(SE_SIDBITS - 1)", ""),
         Define("SE_VERSION", "\"2.10\"", "")>>,
     functions |->
       <<Decl("char *", "swe_version", "char *"),
         Decl("void", "swe_close", "void"),
         Decl("int", "swe_date_conversion",
              "int y , int m , int d ,\n double utime, /* hours */ char c, double *tjd"),
         Decl("double", "swe_example", "double, const char *hsys")>>],
    [defines |->
       <<Define("SE_SUN", "0", ""), Define("SE_GREG_CAL", "1", "Gregorian"),
         Define("SE_MOON", "SE_SUN+1", "")>>,
     functions |->
       <<Decl("int32", "swe_calc_ut",
              "double tjd_ut, int32 ipl, int32 iflag, double *xx, char *serr")>>] }

NoParse == [constants |-> <<>>, functions |-> <<>>]

\* the disk before the first run: no output file, or the files an earlier
\* run left
InitGen ==
  /\ header \in Headers
  /\ disk \in {<<>>} \cup {generatedFiles(h) : h \in Headers}
  /\ parsed = NoParse /\ gpc = "read" /\ run = 1
  /\ written = {} /\ firstRun = {}
  /\ WrapperIdle /\ TopoIdle /\ CatIdle /\ ApiIdle /\ FunIdle

\* readFileSync, parseConstants, parseFunctions
ReadHeader ==
  /\ gpc = "read"
  /\ parsed' = parseHeader(header)
  /\ gpc' = "mkdir"
  /\ UNCHANGED <<header, disk, run, written, firstRun>>
  /\ UNCHANGED <<wvars, tvars, cvars, avars, fvars>>

\* a statement of main() raises (the header cannot be read, the directory
\* cannot be made, a document cannot be generated or written): nothing
\* catches it, the run ends
StepFails ==
  /\ gpc \in {"read", "mkdir"} \cup Range(writeSteps)
  /\ gpc' = "failed"
  /\ UNCHANGED <<header, disk, parsed, run, written, firstRun>>
  /\ UNCHANGED <<wvars, tvars, cvars, avars, fvars>>

\* mkdirSync(OUTPUT_DIR, { recursive: true })
Mkdir ==
  /\ gpc = "mkdir"
  /\ gpc' = writeSteps[1]
  /\ UNCHANGED <<header, disk, parsed, run, written, firstRun>>
  /\ UNCHANGED <<wvars, tvars, cvars, avars, fvars>>

\* the k-th generate-and-write statement pair of main()
writeStep(k) ==
  /\ gpc = writeSteps[k]
  /\ disk' = writeFileSync(disk, outputPaths[k], contentOf(k, parsed))
  /\ written' = written \cup {outputPaths[k]}
  /\ gpc' = IF k < Len(writeSteps) THEN writeSteps[k + 1] ELSE "done"
  /\ firstRun' = IF k = Len(writeSteps) /\ firstRun = {}
                   THEN {[run |-> run, header |-> header, disk |-> disk']}
                   ELSE firstRun
  /\ UNCHANGED <<header, parsed, run>>
  /\ UNCHANGED <<wvars, tvars, cvars, avars, fvars>>

WriteConstants == writeStep(1)
WriteFunctions == writeStep(2)
WriteFriendly == writeStep(3)
WriteIndex == writeStep(4)
WriteExports == writeStep(5)

\* the generator is started again
StartRun ==
  /\ gpc \in {"done", "failed", "edited"} /\ run < MaxRuns
  /\ run' = run + 1
  /\ gpc' = "read" /\ parsed' = NoParse /\ written' = {}
  /\ UNCHANGED <<header, disk, firstRun>>
  /\ UNCHANGED <<wvars, tvars, cvars, avars, fvars>>

\* the header is replaced between two runs
EditHeader ==
  /\ gpc \in {"done", "failed"} /\ run < MaxRuns
  /\ header' \in Headers \ {header}
  /\ gpc' = "edited"
  /\ UNCHANGED <<disk, parsed, run, written, firstRun>>
  /\ UNCHANGED <<wvars, tvars, cvars, avars, fvars>>

NextGen ==
  \/ ReadHeader \/ StepFails \/ Mkdir
  \/ WriteConstants \/ WriteFunctions \/ WriteFriendly \/ WriteIndex \/ WriteExports
  \/ StartRun \/ EditHeader

SpecGen == InitGen /\ [][NextGen]_vars

\* C8: a run that fails at any step has written no output file.
C8_FailedRunWritesNothing == gpc = "failed" => written = {}

\* C9: the files a complete run leaves are a function of the header and the
\* configuration table only, and two complete runs on the same header leave
\* identical files, whatever the disk held before.
C9_RunsAreDeterministic ==
  gpc = "done" =>
    /\ disk = generatedFiles(header)
    /\ \A f \in firstRun : f.header = header => f.disk = disk

\* the second run completed on the header of the first complete run, which
\* has constants and routines, and left the same files
C9_Witness ==
  /\ gpc = "done" /\ run = 2
  /\ header.defines # <<>> /\ header.functions # <<>>
  /\ \E f \in firstRun : f.run = 1 /\ f.header = header /\ f.disk = disk
  /\ DOMAIN disk = Range(outputPaths)

(***************************************************************************)
(* withErrorBuffer (helpers.ts), SwissEph.calc and SwissEph.calcKetu       *)
(* (index.ts): one call, statement by statement                            *)
(***************************************************************************)

\* how many bytes from serrPtr on are kept; a content without a zero byte
\* stands for a memory in which the scan of getString never ends
MaxScan == 3

Contents == [1..MaxScan -> ErrByte]

\* the bufferSize arguments of withErrorBuffer
BufferSizes == {1, 2}

\* the addresses malloc can return
Addresses == {8, 64}

\* byte offsets of six doubles
Offsets == {0, 8, 16, 24, 32, 40}

\* the doubles the native routine leaves at xxPtr
Position(v) == [o \in Offsets |-> v[(o \div 8) + 1]]

Positions == {Position(<<200, -3, 1, 2, 4, 5>>), Position(<<10, 3, 7, -1, 0, 6>>)}

ApiCalls ==
  {[op |-> "withErrorBuffer", bufferSize |-> b] : b \in BufferSizes}
  \cup {[op |-> "calc", bufferSize |-> 256], [op |-> "calcKetu", bufferSize |-> 256]}

\* an optional string: undefined, or a string
Absent == [defined |-> FALSE, text |-> <<>>]

Present(text) == [defined |-> TRUE, text |-> text]

\* an error field that is always the decoded string
errorAlwaysDefined(errorStr) == Present(errorStr)

\* errorStr.length > 0 ? errorStr : undefined
errorOf(errorStr) == IF Len(errorStr) > 0 THEN Present(errorStr) ELSE Absent

\* the sizes passed to malloc, in order: withErrorBuffer allocates
\* bufferSize bytes, calc allocates xxPtr (6 * 8) and serrPtr (256)
mallocSizes(call) ==
  IF call.op = "withErrorBuffer" THEN <<call.bufferSize>> ELSE <<6 * 8, 256>>

\* what a callback or native routine that stays inside the error buffer can
\* leave from serrPtr on
bufferContents(call, bytes) ==
  {c \in Contents : \A i \in DOMAIN c : i > call.bufferSize => c[i] = bytes[i]}

\* getFloat64(ptr + offset) on the doubles at ptr
getFloat64(m, offset) == m[offset]

\* a test of the error field's truthiness instead of its presence
isCalcErrorTruthy(r) == "error" \in DOMAIN r /\ r.error # <<>>

\* "error" in result
isCalcError(r) == "error" \in DOMAIN r

\* the try block of calc once the native routine returned ret
calcResult(ret, bytes, m) ==
  IF ret < 0 THEN [error |-> getString(bytes)]
  ELSE [longitude      |-> getFloat64(m, 0),
        latitude       |-> getFloat64(m, 8),
        distance       |-> getFloat64(m, 16),
        speedLongitude |-> getFloat64(m, 24),
        speedLatitude  |-> getFloat64(m, 32),
        speedDistance  |-> getFloat64(m, 40)]

\* swe_degnorm
normalizeDegrees(degrees) == degrees % 360

\* calcKetu once calc returned r
calcKetuResult(r) ==
  IF isCalcError(r) THEN r
  ELSE [r EXCEPT !.longitude = normalizeDegrees(@ + 180), !.latitude = -@]

InitApi ==
  /\ acall \in ApiCalls /\ apc = "malloc" /\ amallocs = <<>> /\ afrees = <<>>
  /\ serr = <<>> /\ xxMem = <<>> /\ acalled = "no" /\ avalue = 0
  /\ acompletion = "none" /\ aresult = Pending /\ kresult = Pending
  /\ aoutcome = "running"
  /\ WrapperIdle /\ TopoIdle /\ CatIdle /\ GenIdle /\ FunIdle

\* swe.malloc(size) returns a block; malloc does not initialise it, so the
\* bytes of the error buffer (the last block) are arbitrary
Malloc ==
  /\ apc = "malloc"
  /\ \E ptr \in Addresses \ {amallocs[i].ptr : i \in DOMAIN amallocs} :
       amallocs' = Append(amallocs,
                     [ptr |-> ptr, size |-> mallocSizes(acall)[Len(amallocs) + 1]])
  /\ IF Len(amallocs) + 1 = Len(mallocSizes(acall))
       THEN apc' = "call" /\ serr' \in Contents
       ELSE apc' = "malloc" /\ serr' = serr
  /\ UNCHANGED <<acall, afrees, xxMem, acalled, avalue, acompletion, aresult,
                 kresult, aoutcome>>
  /\ UNCHANGED <<wvars, tvars, cvars, gvars, fvars>>

\* swe.malloc raises; the statement stands before the try block
MallocRaises ==
  /\ apc = "malloc"
  /\ apc' = "done" /\ aoutcome' = "raised"
  /\ UNCHANGED <<acall, amallocs, afrees, serr, xxMem, acalled, avalue,
                 acompletion, aresult, kresult>>
  /\ UNCHANGED <<wvars, tvars, cvars, gvars, fvars>>

\* fn(serrPtr) / swe_calc_ut(..., xxPtr, serrPtr) returns
Call ==
  /\ apc = "call"
  /\ acalled' = "returned"
  /\ avalue' \in RetVals
  /\ serr' \in bufferContents(acall, serr)
  /\ xxMem' \in IF acall.op = "withErrorBuffer" THEN {xxMem} ELSE Positions
  /\ apc' = "read"
  /\ UNCHANGED <<acall, amallocs, afrees, acompletion, aresult, kresult, aoutcome>>
  /\ UNCHANGED <<wvars, tvars, cvars, gvars, fvars>>

\* fn(serrPtr) / swe_calc_ut raises
CallRaises ==
  /\ apc = "call"
  /\ acalled' = "raised"
  /\ acompletion' = "throw"
  /\ apc' = "finally"
  /\ UNCHANGED <<acall, amallocs, afrees, serr, xxMem, avalue, aresult, kresult,
                 aoutcome>>
  /\ UNCHANGED <<wvars, tvars, cvars, gvars, fvars>>

\* the rest of the try block: the return statement.  getString ends only at
\* a zero byte.
Read ==
  /\ apc = "read"
  /\ IF acall.op = "withErrorBuffer"
       THEN /\ 0 \in Range(serr)
            /\ aresult' = [value |-> avalue, error |-> errorOf(getString(serr))]
       ELSE /\ avalue < 0 => 0 \in Range(serr)
            /\ aresult' = calcResult(avalue, serr, xxMem)
  /\ acompletion' = "return"
  /\ apc' = "finally"
  /\ UNCHANGED <<acall, amallocs, afrees, serr, xxMem, acalled, avalue, kresult,
                 aoutcome>>
  /\ UNCHANGED <<wvars, tvars, cvars, gvars, fvars>>

\* finally: free the blocks, in the order they were allocated
ApiFree ==
  /\ apc = "finally"
  /\ Len(afrees) < Len(amallocs)
  /\ afrees' = Append(afrees, amallocs[Len(afrees) + 1].ptr)
  /\ UNCHANGED <<acall, apc, amallocs, serr, xxMem, acalled, avalue, acompletion,
                 aresult, kresult, aoutcome>>
  /\ UNCHANGED <<wvars, tvars, cvars, gvars, fvars>>

\* the end of the finally block: the pending completion takes place
ApiEndFinally ==
  /\ apc = "finally"
  /\ Len(afrees) = Len(amallocs)
  /\ IF acompletion = "throw"
       THEN apc' = "done" /\ aoutcome' = "raised"
     ELSE IF acall.op = "calcKetu"
       THEN apc' = "ketu" /\ aoutcome' = aoutcome
     ELSE apc' = "done" /\ aoutcome' = "returned"
  /\ UNCHANGED <<acall, amallocs, afrees, serr, xxMem, acalled, avalue,
                 acompletion, aresult, kresult>>
  /\ UNCHANGED <<wvars, tvars, cvars, gvars, fvars>>

\* calcKetu after this.calc returned
Ketu ==
  /\ apc = "ketu"
  /\ kresult' = calcKetuResult(aresult)
  /\ apc' = "done" /\ aoutcome' = "returned"
  /\ UNCHANGED <<acall, amallocs, afrees, serr, xxMem, acalled, avalue,
                 acompletion, aresult>>
  /\ UNCHANGED <<wvars, tvars, cvars, gvars, fvars>>

NextApi ==
  \/ Malloc \/ MallocRaises \/ Call \/ CallRaises \/ Read \/ ApiFree
  \/ ApiEndFinally \/ Ketu

SpecApi == InitApi /\ [][NextApi]_vars

\* the text getString yields on bytes: what stands before the first zero
\* byte, decoded
TextBeforeZero(bytes, text) ==
  \E k \in DOMAIN bytes :
    /\ bytes[k] = 0
    /\ \A j \in 1..(k - 1) : bytes[j] # 0
    /\ text = [j \in 1..(k - 1) |-> CharOf[bytes[j]]]

\* C17: withErrorBuffer allocates one buffer of the requested size and has
\* freed it exactly once when it returns or propagates a failure, whether the
\* callback returned or raised; when the callback returned, the result holds
\* the callback's value and, as error, the text decoded from the buffer, or
\* undefined when that text is empty.
C17_WithErrorBuffer ==
  acall.op = "withErrorBuffer" =>
    /\ Len(amallocs) <= 1 /\ Len(afrees) <= Len(amallocs)
    /\ \A i \in DOMAIN amallocs : amallocs[i].size = acall.bufferSize
    /\ acalled # "no" => Len(amallocs) = 1
    /\ aoutcome # "running" => afrees = [i \in DOMAIN amallocs |-> amallocs[i].ptr]
    /\ (acalled = "raised" /\ aoutcome # "running") =>
         aoutcome = "raised" /\ aresult = Pending
    /\ (acalled = "returned" /\ aoutcome # "running") =>
         /\ aoutcome = "returned"
         /\ aresult.value = avalue
         /\ IF serr[1] = 0 THEN aresult.error = Absent
            ELSE /\ aresult.error.defined
                 /\ TextBeforeZero(serr, aresult.error.text)

\* the callback returned -1 and left an empty string: the result has the
\* value -1 and no error, and the buffer has been freed
C17_Witness ==
  /\ acall.op = "withErrorBuffer" /\ aoutcome = "returned"
  /\ avalue = -1 /\ serr[1] = 0 /\ aresult = [value |-> -1, error |-> Absent]
  /\ Len(amallocs) = 1 /\ afrees = <<amallocs[1].ptr>>

\* C18: once the native routine has returned, calc does not raise: for a
\* negative return value it returns a value whose only field, error, is the
\* string read from the error buffer, and isCalcError recognises it; for a
\* non-negative return value it returns the six fields read at byte offsets
\* 0, 8, 16, 24, 32 and 40 of xxPtr.  calcKetu returns the error value of
\* calc as it is.
C18_CalcErrorValue ==
  acall.op \in {"calc", "calcKetu"} =>
    /\ (acalled = "returned" /\ apc \in {"finally", "ketu", "done"}) =>
         /\ aoutcome # "raised"
         /\ IF avalue < 0
              THEN /\ isCalcError(aresult)
                   /\ DOMAIN aresult = {"error"}
                   /\ TextBeforeZero(serr, aresult.error)
              ELSE /\ ~isCalcError(aresult)
                   /\ aresult = [longitude      |-> xxMem[0],
                                 latitude       |-> xxMem[8],
                                 distance       |-> xxMem[16],
                                 speedLongitude |-> xxMem[24],
                                 speedLatitude  |-> xxMem[32],
                                 speedDistance  |-> xxMem[40]]
    /\ (acall.op = "calcKetu" /\ aoutcome = "returned" /\ avalue < 0) =>
         kresult = aresult /\ isCalcError(kresult)

\* calcKetu has returned the error value of a calc whose native routine
\* returned -1 with the message "AB"
C18_Witness ==
  /\ acall.op = "calcKetu" /\ aoutcome = "returned" /\ avalue = -1
  /\ kresult = [error |-> <<"A", "B">>]
  /\ Len(afrees) = 2

(***************************************************************************)
(* buildReturnValue and the result type of buildSignature on one           *)
(* configuration entry without a named result shape                        *)
(***************************************************************************)

\* how many outputs a sampled entry has at most
MaxOutputs == 3

\* the output type descriptors, with and without a declared public name
OutputTypes(name) ==
  {[type |-> "float64",   count |-> 0, size |-> 0,   name |-> name],
   [type |-> "int32",     count |-> 0, size |-> 0,   name |-> name],
   [type |-> "float64[]", count |-> 2, size |-> 0,   name |-> name],
   [type |-> "int32[]",   count |-> 2, size |-> 0,   name |-> name],
   [type |-> "string",    count |-> 0, size |-> 256, name |-> name],
   [type |-> "error",     count |-> 0, size |-> 256, name |-> Null]}

\* the parameter of the i-th output, and the public name it may declare
OutputParams == <<"dret", "iret", "sret", "xret">>

PublicNames == <<"first", "second", "third", "fourth">>

SampleOutputs ==
  UNION {
    {o \in [1..n -> UNION {OutputTypes(nm) : nm \in {Null} \cup Range(PublicNames)}] :
       \A i \in 1..n : o[i].name \in {Null, PublicNames[i]}}
    : n \in 2..MaxOutputs}

SampleConfigs ==
  {[friendlyName |-> Null,
    outputs      |-> [i \in DOMAIN o |-> [param |-> OutputParams[i], type |-> o[i]]],
    inputStrings |-> <<>>, returnType |-> rt, resultType |-> Null, skip |-> FALSE]
   : o \in SampleOutputs, rt \in {Null, "check-negative", "void"}}

InitShape ==
  /\ finput \in SampleConfigs /\ fpc = "start" /\ foutput = <<>>
  /\ WrapperIdle /\ TopoIdle /\ CatIdle /\ GenIdle /\ ApiIdle

\* generateWrapperFunction on the entry: the result type of the signature
\* and the return statement
GenerateShape ==
  /\ fpc = "start"
  /\ foutput' =
       [declared |-> signatureResultType(finput, returnTypeOf(finput), finput.outputs),
        fields   |-> returnFields(finput.outputs,
                       buildReturnValue(finput.outputs, finput, returnTypeOf(finput)))]
  /\ fpc' = "done"
  /\ UNCHANGED finput
  /\ UNCHANGED <<wvars, tvars, cvars, gvars, avars>>

NextShape == GenerateShape

SpecShape == InitShape /\ [][NextShape]_vars

\* C21: for an entry with no named result shape and more than one non-error
\* output, the returned object has exactly one field per non-error output,
\* in order, named by the declared public name of the output or by its
\* parameter when none is declared, whatever the output types are, and the
\* declared result type lists the same fields.
C21_FieldPerOutput ==
  (fpc = "done" /\ Len(nonErrorOutputs(finput.outputs)) > 1) =>
    LET outs == nonErrorOutputs(finput.outputs)
    IN  /\ [i \in DOMAIN foutput.fields |-> foutput.fields[i].name]
             = [i \in DOMAIN outs |->
                  IF outs[i].type.name # Null THEN outs[i].type.name ELSE outs[i].param]
        /\ foutput.declared.kind = "object"
        /\ [i \in DOMAIN foutput.declared.fields |-> foutput.declared.fields[i].name]
             = [i \in DOMAIN foutput.fields |-> foutput.fields[i].name]

(***************************************************************************)
(* parseConstants on a few #define lines: the dependencies it records      *)
(***************************************************************************)

\* how many #define lines a sampled header has at most
MaxDefines == 2

\* names and values of the sampled #define lines: references to other
\* names, to the defined name itself, to a one-letter name, and an
\* expression the parser puts in parentheses
DefineNames == {T("SE_SUN"), T("SE_MC"), T("E")}

DefineValues ==
  {T("0"), T("SE_SUN"), T("E"), T("SE_MC | SE_SUN"), T("(SE_SUN+SE_MC)"),
   T("SE_MC /* house point */")}

SampleDefines ==
  UNION {[1..n -> [name : DefineNames, value : DefineValues, comment : {<<>>}]]
         : n \in 0..MaxDefines}

InitDeps ==
  /\ finput \in SampleDefines /\ fpc = "start" /\ foutput = <<>>
  /\ WrapperIdle /\ TopoIdle /\ CatIdle /\ GenIdle /\ ApiIdle

\* a call of parseConstants
ParseConstants ==
  /\ fpc = "start"
  /\ foutput' = parseConstants(finput)
  /\ fpc' = "done"
  /\ UNCHANGED finput
  /\ UNCHANGED <<wvars, tvars, cvars, gvars, avars>>

NextDeps == ParseConstants

SpecDeps == InitDeps /\ [][NextDeps]_vars

\* the words of v that have the form of a constant name: a maximal run of
\* letters, digits and underscores that starts with a capital and holds only
\* capitals, digits and underscores
NameTokens(v) ==
  {SubSeq(v, i, j) : <<i, j>> \in
     {p \in (DOMAIN v) \X (DOMAIN v) :
        /\ p[1] <= p[2]
        /\ \A k \in p[1]..p[2] : v[k] \in IdChar
        /\ v[p[1]] \in Upper
        /\ p[1] = 1 \/ v[p[1] - 1] \notin WordChar
        /\ p[2] = Len(v) \/ v[p[2] + 1] \notin WordChar}}

\* C22: the dependencies recorded for an accepted constant are exactly the
\* name-shaped tokens of its value other than the constant's own name: the
\* defined name is never among them, every other name in the value is.
C22_RecordedDependencies ==
  fpc = "done" =>
    \A i \in DOMAIN foutput :
      Range(foutput[i].dependencies) = NameTokens(foutput[i].value) \ {foutput[i].name}

(***************************************************************************)
(* parseParams on one parameter list                                       *)
(***************************************************************************)

\* how many comma-separated pieces a sampled parameter list has at most
MaxPieces == 3

\* a piece of a parameter list as written, with what it declares: the
\* identifier (<<>> when the piece has no identifier) and whether it holds
\* a "*"
Piece(text, name, pointer) == [text |-> text, name |-> name, pointer |-> pointer]

SamplePieces ==
  {Piece(T("double tjd_ut"), T("tjd_ut"), FALSE),
   Piece(T(" char *serr"), T("serr"), TRUE),
   Piece(T("const char *hsys"), T("hsys"), TRUE),
   Piece(T("int32 arg1"), T("arg1"), FALSE),
   Piece(T("double"), <<>>, FALSE),
   Piece(T("double *"), <<>>, TRUE),
   Piece(T(" "), <<>>, FALSE)}

SampleParamLists == UNION {[1..n -> SamplePieces] : n \in 0..MaxPieces}

\* the text of a parameter list
paramsText(pieces) == join([i \in DOMAIN pieces |-> pieces[i].text], <<",">>)

InitParams ==
  /\ finput \in SampleParamLists /\ fpc = "start" /\ foutput = <<>>
  /\ WrapperIdle /\ TopoIdle /\ CatIdle /\ GenIdle /\ ApiIdle

\* a call of parseParams
ParseParams ==
  /\ fpc = "start"
  /\ foutput' = parseParams(paramsText(finput))
  /\ fpc' = "done"
  /\ UNCHANGED finput
  /\ UNCHANGED <<wvars, tvars, cvars, gvars, avars>>

NextParams == ParseParams

SpecParams == InitParams /\ [][NextParams]_vars

\* the pieces of a list that are not empty, in order
NonEmptyPieces(pieces) == SelectSeq(pieces, LAMBDA p : trim(p.text) # <<>>)

\* the name parseParams is to give the k-th returned parameter
ExpectedName(p, k) == IF p.name # <<>> THEN p.name ELSE T("arg") \o decimal(k - 1)

\* the identifiers a list declares are pairwise distinct, as C requires of a
\* prototype
DistinctIdentifiers(pieces) ==
  \A j \in DOMAIN pieces : \A k \in DOMAIN pieces :
    (pieces[j].name # <<>> /\ pieces[j].name = pieces[k].name) => j = k

\* C23: parseParams returns one parameter per non-empty piece, in declared
\* order; a piece with an identifier is named by it, a piece of a single
\* word is named arg<k> with k its zero-based position; isPointer holds
\* exactly when the piece contains "*"; the names of a routine (whose
\* declared identifiers are distinct) are pairwise distinct.
C23_ParseParams ==
  (fpc = "done" /\ DistinctIdentifiers(finput)) =>
    LET pieces == NonEmptyPieces(finput)
    IN  /\ Len(foutput) = Len(pieces)
        /\ \A k \in DOMAIN foutput :
             /\ foutput[k].name = ExpectedName(pieces[k], k)
             /\ foutput[k].isPointer = pieces[k].pointer
        /\ \A j \in DOMAIN foutput : \A k \in DOMAIN foutput :
             foutput[j].name = foutput[k].name => j = k

(***************************************************************************)
(* getString, one loop iteration per step                                  *)
(***************************************************************************)

\* the length of the linear memory, in bytes
MaxMem == 3

\* the value from which end++ leaves end as it is (2^53 in the program)
EndLimit == MaxMem + 2

\* what mem[end] !== 0 compares with 0 when end is not an index of mem
NoByte == -1

Memories == UNION {[1..n -> ErrByte] : n \in 1..MaxMem}

\* mem[a], a counted from 0
byteAt(mem, a) == IF a < Len(mem) THEN mem[a + 1] ELSE NoByte

\* mem.subarray(begin, end): both ends are clamped to the length
subarray(mem, begin, end) ==
  LET clamp(a) == IF a > Len(mem) THEN Len(mem) ELSE a
  IN  SubSeq(mem, clamp(begin) + 1, clamp(end))

InitString ==
  /\ \E mem \in Memories : \E ptr \in 0..Len(mem) :
       finput = [mem |-> mem, ptr |-> ptr]
  /\ fpc = "start" /\ foutput = <<>>
  /\ WrapperIdle /\ TopoIdle /\ CatIdle /\ GenIdle /\ ApiIdle

\* let end = ptr
ScanStart ==
  /\ fpc = "start"
  /\ fpc' = "scan"
  /\ foutput' = [end |-> finput.ptr]
  /\ UNCHANGED finput
  /\ UNCHANGED <<wvars, tvars, cvars, gvars, avars>>

\* while (mem[end] !== 0) end++
ScanStep ==
  /\ fpc = "scan"
  /\ byteAt(finput.mem, foutput.end) # 0
  /\ foutput' = [end |-> IF foutput.end < EndLimit THEN foutput.end + 1
                         ELSE foutput.end]
  /\ UNCHANGED <<finput, fpc>>
  /\ UNCHANGED <<wvars, tvars, cvars, gvars, avars>>

\* return new TextDecoder().decode(mem.subarray(ptr, end))
ScanReturn ==
  /\ fpc = "scan"
  /\ byteAt(finput.mem, foutput.end) = 0
  /\ foutput' = [end |-> foutput.end,
                 text |-> decode(subarray(finput.mem, finput.ptr, foutput.end))]
  /\ fpc' = "done"
  /\ UNCHANGED finput
  /\ UNCHANGED <<wvars, tvars, cvars, gvars, avars>>

NextString == ScanStart \/ ScanStep \/ ScanReturn

\* the call runs on: no step of it is put off forever
SpecString == InitString /\ [][NextString]_vars /\ WF_vars(NextString)

\* the bytes of mem from ptr on
BytesFrom(mem, ptr) == SubSeq(mem, ptr + 1, Len(mem))

\* C30: getString(ptr) terminates for every memory content and every ptr,
\* also when no zero byte stands at or after ptr, and returns the bytes from
\* ptr up to but excluding the first zero byte.
C30_GetStringTerminates ==
  <>(/\ fpc = "done"
     /\ \/ TextBeforeZero(BytesFrom(finput.mem, finput.ptr), foutput.text)
        \/ /\ 0 \notin Range(BytesFrom(finput.mem, finput.ptr))
           /\ foutput.text = decode(BytesFrom(finput.mem, finput.ptr)))

(***************************************************************************)
(* topologicalSort, one loop iteration or one call of visit per step       *)
(***************************************************************************)

\* the depth of calls of visit the machine has room for
StackLimit == MaxConsts + 1

\* a visit that does not return early for a name in progress
returnsEarlyButInProgress(st, name) ==
  name \in st.visited \/ name \in st.skipped

\* the first three early returns of visit: visited, in progress, skipped
returnsEarly(st, name) ==
  name \in st.visited \/ name \in st.inProgress \/ name \in st.skipped

\* visit(name) gets past its early returns (the fourth: byName has no name)
enters(constants, st, name) ==
  ~returnsEarly(st, name) /\ name \in DOMAIN byName(constants)

\* inProgress.add(name), then the for loop over the dependencies begins
entered(st, name) ==
  [st EXCEPT !.inProgress = @ \cup {name},
             !.stack      = Append(@, [name |-> name, i |-> 1]),
             !.entries    = Append(@, name)]

InitSort ==
  /\ finput \in TopoInputs /\ fpc = "start" /\ foutput = <<>>
  /\ WrapperIdle /\ TopoIdle /\ CatIdle /\ GenIdle /\ ApiIdle

\* the first loop: the constants with a dependency nobody defines
SkipMissing ==
  /\ fpc = "start"
  /\ foutput' = [skipped    |-> missingDependencies(finput),
                 changed    |-> TRUE,
                 passes     |-> 0,
                 k          |-> 1,
                 stack      |-> <<>>,
                 visited    |-> {},
                 inProgress |-> {},
                 sorted     |-> <<>>,
                 entries    |-> <<>>]
  /\ fpc' = "skip"
  /\ UNCHANGED finput
  /\ UNCHANGED <<wvars, tvars, cvars, gvars, avars>>

\* one pass of "while (changed)"
SkipPass ==
  /\ fpc = "skip" /\ foutput.changed
  /\ LET after == skipPass(finput, 1, foutput.skipped)
     IN  foutput' = [foutput EXCEPT !.skipped = after,
                                    !.changed = (after # foutput.skipped),
                                    !.passes  = @ + 1]
  /\ UNCHANGED <<finput, fpc>>
  /\ UNCHANGED <<wvars, tvars, cvars, gvars, avars>>

\* the while loop is left
SkipEnd ==
  /\ fpc = "skip" /\ ~foutput.changed
  /\ fpc' = "visit"
  /\ UNCHANGED <<finput, foutput>>
  /\ UNCHANGED <<wvars, tvars, cvars, gvars, avars>>

\* one iteration of the final for loop: visit(c.name) unless c is skipped
VisitConstant ==
  /\ fpc = "visit" /\ foutput.stack = <<>> /\ foutput.k <= Len(finput)
  /\ LET name == finput[foutput.k].name
         next == [foutput EXCEPT !.k = @ + 1]
     IN  foutput' = IF name \notin foutput.skipped /\ enters(finput, foutput, name)
                      THEN entered(next, name) ELSE next
  /\ UNCHANGED <<finput, fpc>>
  /\ UNCHANGED <<wvars, tvars, cvars, gvars, avars>>

\* one iteration of the for loop of visit: visit(dep) when byName has dep
VisitDependency ==
  /\ fpc = "visit" /\ foutput.stack # <<>>
  /\ LET top  == foutput.stack[Len(foutput.stack)]
         deps == byName(finput)[top.name].dependencies
     IN  /\ top.i <= Len(deps)
         /\ LET dep  == deps[top.i]
                next == [foutput EXCEPT !.stack[Len(foutput.stack)].i = @ + 1]
            IN  IF dep \in DOMAIN byName(finput) /\ enters(finput, foutput, dep)
                  THEN /\ Len(foutput.stack) < StackLimit
                       /\ foutput' = entered(next, dep)
                  ELSE foutput' = next
  /\ UNCHANGED <<finput, fpc>>
  /\ UNCHANGED <<wvars, tvars, cvars, gvars, avars>>

\* the end of visit: inProgress.delete, visited.add, sorted.push
VisitReturn ==
  /\ fpc = "visit" /\ foutput.stack # <<>>
  /\ LET top == foutput.stack[Len(foutput.stack)]
         c   == byName(finput)[top.name]
     IN  /\ top.i > Len(c.dependencies)
         /\ foutput' = [foutput EXCEPT
                          !.stack      = SubSeq(@, 1, Len(@) - 1),
                          !.inProgress = @ \ {top.name},
                          !.visited    = @ \cup {top.name},
                          !.sorted     = Append(@, c)]
  /\ UNCHANGED <<finput, fpc>>
  /\ UNCHANGED <<wvars, tvars, cvars, gvars, avars>>

\* return sorted
SortReturn ==
  /\ fpc = "visit" /\ foutput.stack = <<>> /\ foutput.k > Len(finput)
  /\ fpc' = "done"
  /\ UNCHANGED <<finput, foutput>>
  /\ UNCHANGED <<wvars, tvars, cvars, gvars, avars>>

NextSort ==
  \/ SkipMissing \/ SkipPass \/ SkipEnd
  \/ VisitConstant \/ VisitDependency \/ VisitReturn \/ SortReturn

\* the call runs on: no step of it is put off forever
SpecSort == InitSort /\ [][NextSort]_vars /\ WF_vars(NextSort)

\* C24: topologicalSort terminates on every finite list of constants, with
\* cycles, self-references, duplicate names and missing dependencies: the
\* exclusion loop stops after finitely many passes (each pass but the last
\* excludes one more name), and visit gets past its early returns at most
\* once per name.
C24_SortTerminates ==
  /\ <>(fpc = "done")
  /\ [](fpc # "start" =>
          /\ foutput.passes <= Cardinality(NamesOf(finput)) + 1
          /\ \A j \in DOMAIN foutput.entries : \A k \in DOMAIN foutput.entries :
               foutput.entries[j] = foutput.entries[k] => j = k)

\* the sort of a list with a missing dependency, a constant that depends on
\* the excluded one and a self-reference has returned: two passes of the
\* exclusion loop, one name entered
C24_Witness ==
  /\ fpc = "done"
  /\ finput = <<Constant(T("SE_GREG_CAL"), T("TJD_INVALID")),
                Constant(T("SE_SUN"), T("SE_GREG_CAL")),
                Constant(T("SE_MC"), T("SE_MC"))>>
  /\ foutput.passes = 2
  /\ foutput.entries = <<T("SE_MC")>>

=============================================================================
